---- MODULE Spec2Model ----
(***************************************************************************)
(* Model of the turnstile engine's natural-deduction proof checker         *)
(* (packages/engine/src/validator: checker.ts, validator.ts, rules.ts)     *)
(* together with the truth-table entailment test it is measured against.   *)
(*                                                                         *)
(* A proof is a flat list of steps with a depth column.  The state machine *)
(* is a caller that appends steps to a proof and has the whole proof       *)
(* re-checked by checkProof after every change, as ProofBuilder does.      *)
(* Indices (index, startIndex, subproofEnd, currentIndex) are 0-based as   *)
(* in the source; At(s, i) reads the element the source writes s[i].       *)
(***************************************************************************)
EXTENDS Integers, Sequences, FiniteSets, TLC

VARIABLES steps, premises, conclusion, result, input, parsed, built, query, answer

vars == <<steps, premises, conclusion, result, input, parsed, built, query, answer>>

(***************************************************************************)
(* Bounds of the model.                                                    *)
(***************************************************************************)
MaxSteps == 3
MaxDepth == 1
MaxRefSteps == 3
MaxRefDepth == 2
MaxElimSteps == 3
MaxOrSteps == 4
MaxAccessSteps == 4
MaxAritySteps == 1

MaxFormulaDepth == 2

MaxInputLen == 5

MaxLexLen == 4

(***************************************************************************)
(* Formula constructors (types.ts).                                        *)
(***************************************************************************)
Var(n) == [kind |-> "var", name |-> n]
Bottom == [kind |-> "bottom"]
Not(f) == [kind |-> "not", operand |-> f]
And(l, r) == [kind |-> "and", left |-> l, right |-> r]
Or(l, r) == [kind |-> "or", left |-> l, right |-> r]
Implies(l, r) == [kind |-> "implies", left |-> l, right |-> r]
Iff(l, r) == [kind |-> "iff", left |-> l, right |-> r]

\* The value JavaScript calls undefined (a failed find, a missing array element).
Undefined == [kind |-> "undefined"]

\* subproofEnd of a line that has none (the field is absent in the source).
NoEnd == -1

At(s, i) == s[i + 1]

BinaryKinds == {"and", "or", "implies", "iff"}

RECURSIVE formulaEquals(_, _)
formulaEquals(a, b) ==
  IF a.kind # b.kind THEN FALSE
  ELSE CASE a.kind = "var" -> a.name = b.name
         [] a.kind = "bottom" -> TRUE
         [] a.kind = "not" -> formulaEquals(a.operand, b.operand)
         [] a.kind \in BinaryKinds ->
              formulaEquals(a.left, b.left) /\ formulaEquals(a.right, b.right)

(***************************************************************************)
(* Lexer (lexer.ts).  A string is a sequence of characters, each a string  *)
(* of length one; the UTF-8 operator signs are named by their code points. *)
(* A token's value, and so a variable's name, is a sequence of characters. *)
(***************************************************************************)
NotSign == "U+00AC"

AndSign == "U+2227"

OrSign == "U+2228"

ImpliesSign == "U+2192"

IffSign == "U+2194"

BottomSign == "U+22A5"

Backslash == "\\"

\* /[A-Za-z]/
Letters ==
  {"A", "B", "C", "D", "E", "F", "G", "H", "I", "J", "K", "L", "M", "N", "O",
   "P", "Q", "R", "S", "T", "U", "V", "W", "X", "Y", "Z", "a", "b", "c", "d",
   "e", "f", "g", "h", "i", "j", "k", "l", "m", "n", "o", "p", "q", "r", "s",
   "t", "u", "v", "w", "x", "y", "z"}

Digits == {"0", "1", "2", "3", "4", "5", "6", "7", "8", "9"}

\* Characters /\s/ matches: the space, the tab and the line breaks stand for all.
WhitespaceChars == {" ", "\t", "\n", "\r"}

\* input[i] for i past the end of the input (undefined).
NoChar == ""

Token(type, value, position) == [type |-> type, value |-> value, position |-> position]

RECURSIVE skipWhitespace(_, _)
skipWhitespace(inp, position) ==
  IF position < Len(inp) /\ At(inp, position) \in WhitespaceChars
  THEN skipWhitespace(inp, position + 1)
  ELSE position

peek(inp, position, offset) ==
  IF position + offset < Len(inp) THEN At(inp, position + offset) ELSE NoChar

isAlpha(char) == char \in Letters

isAlphaNumeric(char) == char \in Letters \cup Digits

\* The position after the while loop of lines 114-117.
RECURSIVE IdentifierEnd(_, _)
IdentifierEnd(inp, position) ==
  IF position < Len(inp) /\ isAlphaNumeric(At(inp, position))
  THEN IdentifierEnd(inp, position + 1)
  ELSE position

\* The token returned and the lexer's position after the call.
nextToken(inp, position) ==
  LET startPos == skipWhitespace(inp, position)
  IN IF startPos >= Len(inp)
     THEN [token |-> Token("EOF", <<>>, startPos), position |-> startPos]
     ELSE LET char == At(inp, startPos)
              Take(type, n) ==
                [token |-> Token(type, SubSeq(inp, startPos + 1, startPos + n), startPos),
                 position |-> startPos + n]
          IN IF char = "(" THEN Take("LPAREN", 1)
             ELSE IF char = ")" THEN Take("RPAREN", 1)
             ELSE IF char = "~" \/ char = NotSign THEN Take("NOT", 1)
             ELSE IF char = "&" \/ char = AndSign THEN Take("AND", 1)
             ELSE IF char = "/" /\ peek(inp, startPos, 1) = Backslash THEN Take("AND", 2)
             ELSE IF char = OrSign THEN Take("OR", 1)
             ELSE IF char = "|" THEN Take("OR", 1)
             ELSE IF char = Backslash /\ peek(inp, startPos, 1) = "/" THEN Take("OR", 2)
             ELSE IF char = IffSign THEN Take("IFF", 1)
             ELSE IF char = "<" /\ peek(inp, startPos, 1) = "-"
                     /\ peek(inp, startPos, 2) = ">" THEN Take("IFF", 3)
             ELSE IF char = ImpliesSign THEN Take("IMPLIES", 1)
             ELSE IF char = "-" /\ peek(inp, startPos, 1) = ">" THEN Take("IMPLIES", 2)
             ELSE IF char = BottomSign THEN Take("BOTTOM", 1)
             ELSE IF char = "_" /\ peek(inp, startPos, 1) = "|"
                     /\ peek(inp, startPos, 2) = "_" THEN Take("BOTTOM", 3)
             ELSE IF isAlpha(char)
             THEN Take("VAR", IdentifierEnd(inp, startPos) - startPos)
             ELSE Take("VAR", 1)

\* tokenize, from the lexer's position on.
RECURSIVE TokenizeFrom(_, _)
TokenizeFrom(inp, position) ==
  LET Push(t) ==
        IF t.token.type = "EOF" THEN <<t.token>>
        ELSE <<t.token>> \o TokenizeFrom(inp, t.position)
  IN Push(nextToken(inp, position))

tokenize(inp) == TokenizeFrom(inp, 0)

(***************************************************************************)
(* Parser (parser.ts).  A parse method returns the formula and the         *)
(* parser's position after it, or the position carried by the ParserError  *)
(* it throws.                                                              *)
(***************************************************************************)
current(tokens, position) ==
  IF position < Len(tokens) THEN At(tokens, position)
  ELSE Token("EOF", <<>>, Len(tokens))

check(tokens, position, type) == current(tokens, position).type = type

\* The parser's position after advance().
advance(tokens, position) ==
  IF current(tokens, position).type # "EOF" THEN position + 1 ELSE position

Parsed(f, position) == [ok |-> TRUE, formula |-> f, position |-> position]

ParserError(position) == [ok |-> FALSE, position |-> position]

RECURSIVE Parser_parseFormula(_, _)
RECURSIVE parseIff(_, _)
RECURSIVE IffLoop(_, _, _)
RECURSIVE parseImplies(_, _)
RECURSIVE ImpliesOperands(_, _, _)
RECURSIVE BuildImplies(_, _, _)
RECURSIVE parseOr(_, _)
RECURSIVE OrLoop(_, _, _)
RECURSIVE parseAnd(_, _)
RECURSIVE AndLoop(_, _, _)
RECURSIVE parseUnary(_, _)
RECURSIVE parsePrimary(_, _)

Parser_parseFormula(tokens, position) == parseIff(tokens, position)

parseIff(tokens, position) ==
  LET Rest(left) ==
        IF ~left.ok THEN left ELSE IffLoop(tokens, left.formula, left.position)
  IN Rest(parseImplies(tokens, position))

\* The while loop of lines 58-62.
IffLoop(tokens, left, position) ==
  LET Rest(right) ==
        IF ~right.ok THEN right
        ELSE IffLoop(tokens, Iff(left, right.formula), right.position)
  IN IF check(tokens, position, "IFF")
     THEN Rest(parseImplies(tokens, advance(tokens, position)))
     ELSE Parsed(left, position)

\* Variant: the operands of a chain of implications are folded from the left.
RECURSIVE BuildImpliesLeft(_, _, _)
BuildImpliesLeft(operands, i, acc) ==
  IF i >= Len(operands) THEN acc
  ELSE BuildImpliesLeft(operands, i + 1, Implies(acc, At(operands, i)))

parseImplies_leftAssoc(tokens, position) ==
  LET Fold(rest) ==
        IF ~rest.ok THEN rest
        ELSE Parsed(BuildImpliesLeft(rest.operands, 1, rest.operands[1]), rest.position)
      Rest(first) ==
        IF ~first.ok THEN first
        ELSE Fold(ImpliesOperands(tokens, <<first.formula>>, first.position))
  IN Rest(parseOr(tokens, position))

parseImplies(tokens, position) ==
  LET Fold(rest) ==
        IF ~rest.ok THEN rest
        ELSE Parsed(BuildImplies(rest.operands, Len(rest.operands) - 2,
                                 rest.operands[Len(rest.operands)]),
                    rest.position)
      Rest(first) ==
        IF ~first.ok THEN first
        ELSE Fold(ImpliesOperands(tokens, <<first.formula>>, first.position))
  IN Rest(parseOr(tokens, position))

\* The while loop of lines 71-74.
ImpliesOperands(tokens, operands, position) ==
  LET Rest(next) ==
        IF ~next.ok THEN next
        ELSE ImpliesOperands(tokens, Append(operands, next.formula), next.position)
  IN IF check(tokens, position, "IMPLIES")
     THEN Rest(parseOr(tokens, advance(tokens, position)))
     ELSE [ok |-> TRUE, operands |-> operands, position |-> position]

\* The for loop of lines 78-80, from index i down to 0.
BuildImplies(operands, i, acc) ==
  IF i < 0 THEN acc
  ELSE BuildImplies(operands, i - 1, Implies(At(operands, i), acc))

parseOr(tokens, position) ==
  LET Rest(left) ==
        IF ~left.ok THEN left ELSE OrLoop(tokens, left.formula, left.position)
  IN Rest(parseAnd(tokens, position))

\* The while loop of lines 88-92.
OrLoop(tokens, left, position) ==
  LET Rest(right) ==
        IF ~right.ok THEN right
        ELSE OrLoop(tokens, Or(left, right.formula), right.position)
  IN IF check(tokens, position, "OR")
     THEN Rest(parseAnd(tokens, advance(tokens, position)))
     ELSE Parsed(left, position)

parseAnd(tokens, position) ==
  LET Rest(left) ==
        IF ~left.ok THEN left ELSE AndLoop(tokens, left.formula, left.position)
  IN Rest(parseUnary(tokens, position))

\* The while loop of lines 100-104.
AndLoop(tokens, left, position) ==
  LET Rest(right) ==
        IF ~right.ok THEN right
        ELSE AndLoop(tokens, And(left, right.formula), right.position)
  IN IF check(tokens, position, "AND")
     THEN Rest(parseUnary(tokens, advance(tokens, position)))
     ELSE Parsed(left, position)

parseUnary(tokens, position) ==
  LET Negated(operand) ==
        IF ~operand.ok THEN operand
        ELSE Parsed(Not(operand.formula), operand.position)
  IN IF check(tokens, position, "NOT")
     THEN Negated(parseUnary(tokens, advance(tokens, position)))
     ELSE parsePrimary(tokens, position)

parsePrimary(tokens, position) ==
  LET Closed(inner) ==
        IF ~inner.ok THEN inner
        ELSE IF ~check(tokens, inner.position, "RPAREN")
        THEN ParserError(current(tokens, inner.position).position)
        ELSE Parsed(inner.formula, advance(tokens, inner.position))
  IN IF check(tokens, position, "VAR")
     THEN Parsed(Var(current(tokens, position).value), advance(tokens, position))
     ELSE IF check(tokens, position, "BOTTOM")
     THEN Parsed(Bottom, advance(tokens, position))
     ELSE IF check(tokens, position, "LPAREN")
     THEN Closed(Parser_parseFormula(tokens, advance(tokens, position)))
     ELSE ParserError(current(tokens, position).position)

\* ParseResult: success with the formula, or failure with the error's position.
Success(f) == [success |-> TRUE, value |-> f]

Failure(position) == [success |-> FALSE, position |-> position]

\* Variant: a trailing token is reported by its index among the tokens.
Parser_parse_tokenIndex(tokens) ==
  LET Ended(r) ==
        IF ~r.ok THEN Failure(r.position)
        ELSE IF current(tokens, r.position).type # "EOF"
        THEN Failure(r.position)
        ELSE Success(r.formula)
  IN Ended(Parser_parseFormula(tokens, 0))

\* Parser.parse: the try block and the catch of ParserError.
Parser_parse(tokens) ==
  LET Ended(r) ==
        IF ~r.ok THEN Failure(r.position)
        ELSE IF current(tokens, r.position).type # "EOF"
        THEN Failure(current(tokens, r.position).position)
        ELSE Success(r.formula)
  IN Ended(Parser_parseFormula(tokens, 0))

parseFormula(inp) == Parser_parse(tokenize(inp))

(***************************************************************************)
(* Printer (printer.ts).  Precedences are counted in tenths, so that the   *)
(* source's myPrecedence + 0.1 is an integer.                              *)
(***************************************************************************)
SYMBOLS(mode) ==
  IF mode = "ascii"
  THEN [and |-> <<" ", "/", Backslash, " ">>, or |-> <<" ", Backslash, "/", " ">>,
        implies |-> <<" ", "-", ">", " ">>, iff |-> <<" ", "<", "-", ">", " ">>,
        not |-> <<"~">>, bottom |-> <<"_", "|", "_">>]
  ELSE [and |-> <<" ", AndSign, " ">>, or |-> <<" ", OrSign, " ">>,
        implies |-> <<" ", ImpliesSign, " ">>, iff |-> <<" ", IffSign, " ">>,
        not |-> <<NotSign>>, bottom |-> <<BottomSign>>]

\* Variant: conjunction and disjunction share a level.
PRECEDENCE_flat(kind) ==
  CASE kind = "iff" -> 10
    [] kind = "implies" -> 20
    [] kind = "or" -> 30
    [] kind = "and" -> 30
    [] kind = "not" -> 50
    [] kind = "var" -> 60
    [] kind = "bottom" -> 60

PRECEDENCE(kind) ==
  CASE kind = "iff" -> 10
    [] kind = "implies" -> 20
    [] kind = "or" -> 30
    [] kind = "and" -> 40
    [] kind = "not" -> 50
    [] kind = "var" -> 60
    [] kind = "bottom" -> 60

RECURSIVE print(_, _, _)
print(formula, mode, parentPrecedence) ==
  LET symbols == SYMBOLS(mode)
      myPrecedence == PRECEDENCE(formula.kind)
      printed ==
        CASE formula.kind = "var" -> formula.name
          [] formula.kind = "bottom" -> symbols.bottom
          [] formula.kind = "not" ->
               symbols.not \o print(formula.operand, mode, PRECEDENCE("not"))
          [] formula.kind = "and" ->
               print(formula.left, mode, myPrecedence) \o symbols.and
                 \o print(formula.right, mode, myPrecedence + 1)
          [] formula.kind = "or" ->
               print(formula.left, mode, myPrecedence) \o symbols.or
                 \o print(formula.right, mode, myPrecedence + 1)
          [] formula.kind = "implies" ->
               print(formula.left, mode, myPrecedence + 1) \o symbols.implies
                 \o print(formula.right, mode, myPrecedence)
          [] formula.kind = "iff" ->
               print(formula.left, mode, myPrecedence) \o symbols.iff
                 \o print(formula.right, mode, myPrecedence + 1)
  IN IF myPrecedence < parentPrecedence
     THEN <<"(">> \o printed \o <<")">>
     ELSE printed

\* Variant: the formula is printed as if it were the operand of a negation.
printFormula_asOperand(formula, mode) == print(formula, mode, PRECEDENCE("not"))

printFormula(formula, mode) == print(formula, mode, 0)

(***************************************************************************)
(* Truth-table engine: extractVariables, evaluate, generateAllAssignments, *)
(* entails.                                                                *)
(***************************************************************************)
RECURSIVE collect(_)
collect(f) ==
  CASE f.kind = "var" -> {f.name}
    [] f.kind = "bottom" -> {}
    [] f.kind = "not" -> collect(f.operand)
    [] f.kind \in BinaryKinds -> collect(f.left) \cup collect(f.right)

\* The variable names of the truth tables are single letters; the code sorts
\* them by code unit, capitals before small letters.
NameOrder ==
  <<"A", "B", "C", "D", "E", "F", "G", "H", "I", "J", "K", "L", "M",
    "N", "O", "P", "Q", "R", "S", "T", "U", "V", "W", "X", "Y", "Z",
    "a", "b", "c", "d", "e", "f", "g">>

NameRank(n) == CHOOSE k \in 1..Len(NameOrder) : NameOrder[k] = n

\* The names of S in ascending order.
SortNames(S) == SelectSeq(NameOrder, LAMBDA n : n \in S)

extractVariables(f) == SortNames(collect(f))

\* A boolean returned by evaluate, or the Error it throws.
Ret(b) == [threw |-> FALSE, value |-> b]

Thrown == [threw |-> TRUE, value |-> FALSE]

\* The names every object inherits from Object.prototype that are identifiers
\* of the formula language.
InheritedNames ==
  {"constructor", "hasOwnProperty", "isPrototypeOf", "propertyIsEnumerable",
   "toLocaleString", "toString", "valueOf"}

\* The function an assignment without an own value for the name yields for it:
\* no boolean, and taken as true by !, && and ||.
Inherited(n) == [threw |-> FALSE, value |-> TRUE, object |-> n]

\* assignments[name], and the Error when that is undefined.
lookup(a, n) ==
  IF n \in DOMAIN a THEN Ret(a[n])
  ELSE IF n \in InheritedNames THEN Inherited(n) ELSE Thrown

\* evaluate: && and || and the implies case only evaluate the right operand
\* when the left one does not decide the result, and && and || return the
\* operand that decided.
RECURSIVE evaluate(_, _)
evaluate(f, a) ==
  CASE f.kind = "var" -> lookup(a, f.name)
    [] f.kind = "bottom" -> Ret(FALSE)
    [] f.kind = "not" ->
         LET v == evaluate(f.operand, a) IN IF v.threw THEN Thrown ELSE Ret(~v.value)
    [] f.kind = "and" ->
         LET l == evaluate(f.left, a)
         IN IF l.threw THEN Thrown
            ELSE IF ~l.value THEN l ELSE evaluate(f.right, a)
    [] f.kind = "or" ->
         LET l == evaluate(f.left, a)
         IN IF l.threw THEN Thrown
            ELSE IF l.value THEN l ELSE evaluate(f.right, a)
    [] f.kind = "implies" ->
         LET l == evaluate(f.left, a)
         IN IF l.threw THEN Thrown
            ELSE IF ~l.value THEN Ret(TRUE) ELSE evaluate(f.right, a)
    [] f.kind = "iff" ->
         LET l == evaluate(f.left, a)
         IN IF l.threw THEN Thrown
            ELSE LET r == evaluate(f.right, a)
                 IN IF r.threw THEN Thrown ELSE Ret(l = r)

\* 1 << n on 32-bit integers: the shift count is taken modulo 32 and bit 31 is
\* the sign bit.
Pow2(n) == IF n % 32 = 31 THEN (-2147483647) - 1 ELSE 2 ^ (n % 32)

\* (i & (1 << k)) # 0 for a non-negative i, whose sign bit is zero.
Bit(i, k) == IF k % 32 = 31 THEN FALSE ELSE (i \div (2 ^ (k % 32))) % 2 = 1

\* The i-th assignment the generator yields for the variable list.
Assignment(variables, i) ==
  LET n == Len(variables)
  IN [v \in {variables[j] : j \in 1..n} |->
        LET j == CHOOSE k \in 1..n : variables[k] = v
        IN ~Bit(i, n - 1 - (j - 1))]

generateAllAssignments(variables) ==
  [i \in 1..Pow2(Len(variables)) |-> Assignment(variables, i - 1)]

RECURSIVE FlatVars(_)
FlatVars(fs) == IF fs = <<>> THEN {} ELSE collect(Head(fs)) \cup FlatVars(Tail(fs))

entails(prems, concl) ==
  LET allVars == SortNames(FlatVars(prems) \cup collect(concl))
      rows == generateAllAssignments(allVars)
  IN ~\E i \in 1..Len(rows) :
        /\ \A k \in 1..Len(prems) : evaluate(prems[k], rows[i]).value
        /\ ~evaluate(concl, rows[i]).value

\* The value findCounterexample returns when the argument is valid.
Null == [kind |-> "null"]

\* Variant that searches from the last assignment backwards.
RECURSIVE FirstFalsifying_fromEnd(_, _, _, _)
FirstFalsifying_fromEnd(prems, concl, rows, i) ==
  LET k == Len(rows) + 1 - i
  IN IF i > Len(rows) THEN 0
     ELSE IF /\ \A p \in 1..Len(prems) : evaluate(prems[p], rows[k]).value
             /\ ~evaluate(concl, rows[k]).value
          THEN k
          ELSE FirstFalsifying_fromEnd(prems, concl, rows, i + 1)

\* Index of the first assignment of rows, from index i on, under which every
\* premise is true and the conclusion false; 0 when there is none.
RECURSIVE FirstFalsifying(_, _, _, _)
FirstFalsifying(prems, concl, rows, i) ==
  IF i > Len(rows) THEN 0
  ELSE IF /\ \A k \in 1..Len(prems) : evaluate(prems[k], rows[i]).value
          /\ ~evaluate(concl, rows[i]).value
       THEN i
       ELSE FirstFalsifying(prems, concl, rows, i + 1)

findCounterexample(prems, concl) ==
  LET Found(rows, i) == IF i = 0 THEN Null ELSE rows[i]
      Search(rows) == Found(rows, FirstFalsifying(prems, concl, rows, 1))
  IN Search(generateAllAssignments(SortNames(FlatVars(prems) \cup collect(concl))))

isTautology(f, variables) ==
  \A i \in 1..Pow2(Len(variables)) : evaluate(f, Assignment(variables, i - 1)).value

isContradiction(f, variables) ==
  \A i \in 1..Pow2(Len(variables)) : ~evaluate(f, Assignment(variables, i - 1)).value

isSatisfiable(f, variables) ==
  \E i \in 1..Pow2(Len(variables)) : evaluate(f, Assignment(variables, i - 1)).value

generateTruthTable(f) ==
  LET Table(variables) ==
        [formula |-> f,
         variables |-> variables,
         rows |-> [i \in 1..Pow2(Len(variables)) |->
                     [inputs |-> Assignment(variables, i - 1),
                      result |-> evaluate(f, Assignment(variables, i - 1)).value]],
         isTautology |-> isTautology(f, variables),
         isContradiction |-> isContradiction(f, variables),
         isSatisfiable |-> isSatisfiable(f, variables)]
  IN Table(extractVariables(f))

(***************************************************************************)
(* rules.ts                                                                *)
(***************************************************************************)
InferenceRules ==
  {"assumption", "and_intro", "and_elim_l", "and_elim_r", "or_intro_l",
   "or_intro_r", "or_elim", "implies_intro", "implies_elim", "not_intro",
   "not_elim", "iff_intro", "iff_elim", "bottom_elim", "raa", "theorem"}

\* A table that lets an assumption carry one justification.
getRequiredJustificationCount_assumptionOne(rule) ==
  CASE rule = "assumption" -> <<0, 1>>
    [] rule = "and_intro" -> <<2, 2>>
    [] rule \in {"and_elim_l", "and_elim_r"} -> <<1, 1>>
    [] rule \in {"or_intro_l", "or_intro_r"} -> <<1, 1>>
    [] rule = "or_elim" -> <<3, 3>>
    [] rule = "implies_intro" -> <<1, 1>>
    [] rule = "implies_elim" -> <<2, 2>>
    [] rule = "not_intro" -> <<1, 1>>
    [] rule = "not_elim" -> <<1, 1>>
    [] rule = "iff_intro" -> <<2, 2>>
    [] rule = "iff_elim" -> <<2, 2>>
    [] rule = "bottom_elim" -> <<1, 1>>
    [] rule = "raa" -> <<1, 1>>
    [] rule = "theorem" -> <<0, 0>>
    [] OTHER -> <<>>

\* [min, max] as a pair; a tag outside the switch falls off its end and the
\* function returns undefined.
getRequiredJustificationCount(rule) ==
  CASE rule = "assumption" -> <<0, 0>>
    [] rule = "and_intro" -> <<2, 2>>
    [] rule \in {"and_elim_l", "and_elim_r"} -> <<1, 1>>
    [] rule \in {"or_intro_l", "or_intro_r"} -> <<1, 1>>
    [] rule = "or_elim" -> <<3, 3>>
    [] rule = "implies_intro" -> <<1, 1>>
    [] rule = "implies_elim" -> <<2, 2>>
    [] rule = "not_intro" -> <<1, 1>>
    [] rule = "not_elim" -> <<1, 1>>
    [] rule = "iff_intro" -> <<2, 2>>
    [] rule = "iff_elim" -> <<2, 2>>
    [] rule = "bottom_elim" -> <<1, 1>>
    [] rule = "raa" -> <<1, 1>>
    [] rule = "theorem" -> <<0, 0>>
    [] OTHER -> <<>>

opensSubproof(rule) == rule = "assumption"

usesSubproofJustification(rule) ==
  rule \in {"implies_intro", "not_intro", "raa", "or_elim"}

(***************************************************************************)
(* checker.ts: buildProofLineInfo.  The walk state is the pair             *)
(* (lines, subproofStack); the stack's top is its last element.            *)
(***************************************************************************)
\* lines[closed.startIndex].subproofEnd = end, and lines[j].accessible = false
\* for closed.startIndex <= j < upto.
CloseScope(lines, closed, end, upto) ==
  [k \in 1..Len(lines) |->
     LET l0 == lines[k]
         l1 == IF k - 1 = closed.startIndex
               THEN [l0 EXCEPT !.subproofEnd = end] ELSE l0
     IN IF k - 1 >= closed.startIndex /\ k - 1 < upto
        THEN [l1 EXCEPT !.accessible = FALSE] ELSE l1]

\* Variant that closes only the scopes deeper than the step.
RECURSIVE CloseLoop_deeperOnly(_, _, _, _, _)
CloseLoop_deeperOnly(lines, stack, step, i, newSubproofAtSameDepth) ==
  IF Len(stack) > 0 /\ step.depth < stack[Len(stack)].depth
  THEN CloseLoop_deeperOnly(CloseScope(lines, stack[Len(stack)], i - 1, i),
                            SubSeq(stack, 1, Len(stack) - 1), step, i,
                            newSubproofAtSameDepth)
  ELSE [lines |-> lines, stack |-> stack]

\* The while loop of lines 29-40 for step i.
RECURSIVE CloseLoop(_, _, _, _, _)
CloseLoop(lines, stack, step, i, newSubproofAtSameDepth) ==
  IF Len(stack) > 0 /\
     (step.depth < stack[Len(stack)].depth \/
      (newSubproofAtSameDepth /\ step.depth = stack[Len(stack)].depth))
  THEN CloseLoop(CloseScope(lines, stack[Len(stack)], i - 1, i),
                 SubSeq(stack, 1, Len(stack) - 1), step, i, newSubproofAtSameDepth)
  ELSE [lines |-> lines, stack |-> stack]

\* Variant in which every step whose depth rises opens a scope.
isSubproofStartAt_anyRise(proof, i) ==
  LET step == At(proof, i)
      prevDepth == IF i > 0 THEN At(proof, i - 1).depth ELSE 0
      isAssumption == opensSubproof(step.rule)
      depthIncreased == step.depth > prevDepth
      newSubproofAtSameDepth == isAssumption /\ step.depth > 0 /\ step.depth = prevDepth
  IN depthIncreased \/ newSubproofAtSameDepth

isSubproofStartAt(proof, i) ==
  LET step == At(proof, i)
      prevDepth == IF i > 0 THEN At(proof, i - 1).depth ELSE 0
      isAssumption == opensSubproof(step.rule)
      depthIncreased == step.depth > prevDepth
      newSubproofAtSameDepth == isAssumption /\ step.depth > 0 /\ step.depth = prevDepth
  IN isAssumption /\ (depthIncreased \/ newSubproofAtSameDepth)

\* The for loop of lines 14-56, from step i on.
RECURSIVE WalkSteps(_, _, _, _)
WalkSteps(proof, i, lines, stack) ==
  IF i >= Len(proof) THEN [lines |-> lines, stack |-> stack]
  ELSE LET step == At(proof, i)
           prevDepth == IF i > 0 THEN At(proof, i - 1).depth ELSE 0
           isAssumption == opensSubproof(step.rule)
           newSubproofAtSameDepth ==
             isAssumption /\ step.depth > 0 /\ step.depth = prevDepth
           isSubproofStart == isSubproofStartAt(proof, i)
           closedW == CloseLoop(lines, stack, step, i, newSubproofAtSameDepth)
           lineInfo == [step |-> step, index |-> i, accessible |-> TRUE,
                        isSubproofStart |-> isSubproofStart,
                        isSubproofEnd |-> FALSE, subproofEnd |-> NoEnd]
           stack2 == IF isSubproofStart
                     THEN Append(closedW.stack, [startIndex |-> i, depth |-> step.depth])
                     ELSE closedW.stack
       IN WalkSteps(proof, i + 1, Append(closedW.lines, lineInfo), stack2)

\* Variant that closes only the innermost of the scopes left open.
CloseRemaining_topOnly(lines, stack) ==
  IF Len(stack) > 0
  THEN CloseScope(lines, stack[Len(stack)], Len(lines) - 1, Len(lines))
  ELSE lines

\* The while loop of lines 59-68.
RECURSIVE CloseRemaining(_, _)
CloseRemaining(lines, stack) ==
  IF Len(stack) > 0
  THEN CloseRemaining(CloseScope(lines, stack[Len(stack)], Len(lines) - 1, Len(lines)),
                      SubSeq(stack, 1, Len(stack) - 1))
  ELSE lines

\* The loop of lines 71-75.
MarkSubproofEnds(lines) ==
  [k \in 1..Len(lines) |->
     IF \E m \in 1..Len(lines) :
          lines[m].isSubproofStart /\ lines[m].subproofEnd # NoEnd
          /\ lines[m].subproofEnd = k - 1
     THEN [lines[k] EXCEPT !.isSubproofEnd = TRUE] ELSE lines[k]]

buildProofLineInfo(proof) ==
  LET walked == WalkSteps(proof, 0, <<>>, <<>>)
  IN MarkSubproofEnds(CloseRemaining(walked.lines, walked.stack))

(***************************************************************************)
(* checker.ts: accessibility.                                              *)
(***************************************************************************)
\* The loop of getSubproofAncestors from index i down, with the ancestors
\* found so far and the running currentDepth.
RECURSIVE AncestorWalk(_, _, _, _)
AncestorWalk(lines, i, ancestors, currentDepth) ==
  IF i < 0 THEN ancestors
  ELSE LET line == At(lines, i)
       IN IF line.isSubproofStart /\ line.step.depth < currentDepth
          THEN AncestorWalk(lines, i - 1, Append(ancestors, i), line.step.depth)
          ELSE AncestorWalk(lines, i - 1, ancestors, currentDepth)

getSubproofAncestors(lines, idx) ==
  AncestorWalk(lines, idx, <<>>, At(lines, idx).step.depth)

\* A branch test that takes an ancestor ending on the current line for closed.
isInSameSubproofBranch_endInclusive(lines, targetIdx, currentIdx) ==
  LET targetAncestors == getSubproofAncestors(lines, targetIdx)
  IN \A k \in 1..Len(targetAncestors) :
       LET ancestor == targetAncestors[k]
           ancestorLine == At(lines, ancestor)
       IN /\ ~(ancestorLine.subproofEnd # NoEnd /\ ancestorLine.subproofEnd <= currentIdx)
          /\ ~(ancestorLine.subproofEnd # NoEnd /\
               (currentIdx < ancestor \/ currentIdx > ancestorLine.subproofEnd))

isInSameSubproofBranch(lines, targetIdx, currentIdx) ==
  LET targetAncestors == getSubproofAncestors(lines, targetIdx)
  IN \A k \in 1..Len(targetAncestors) :
       LET ancestor == targetAncestors[k]
           ancestorLine == At(lines, ancestor)
       IN /\ ~(ancestorLine.subproofEnd # NoEnd /\ ancestorLine.subproofEnd < currentIdx)
          /\ ~(ancestorLine.subproofEnd # NoEnd /\
               (currentIdx < ancestor \/ currentIdx > ancestorLine.subproofEnd))

isLineAccessible(lines, targetIdx, currentIdx, currentDepth) ==
  IF targetIdx > currentIdx THEN FALSE
  ELSE LET targetDepth == At(lines, targetIdx).step.depth
       IN IF targetDepth = 0 THEN TRUE
          ELSE IF targetDepth > currentDepth
               THEN isInSameSubproofBranch(lines, targetIdx, currentIdx)
               ELSE isInSameSubproofBranch(lines, targetIdx, currentIdx)

RECURSIVE isPremise(_, _)
isPremise(formula, prems) ==
  IF prems = <<>> THEN FALSE
  ELSE formulaEquals(Head(prems), formula) \/ isPremise(formula, Tail(prems))

(***************************************************************************)
(* validator.ts                                                            *)
(***************************************************************************)
IsUndefined(x) == "kind" \in DOMAIN x /\ x.kind = "undefined"

Err(step, code) == [stepId |-> step.id, code |-> code]

\* context.lines.find((l) => l.step.id === justId): the first match.
getLineInfo(context, justId) ==
  IF \E k \in 1..Len(context.lines) : context.lines[k].step.id = justId
  THEN context.lines[CHOOSE k \in 1..Len(context.lines) :
                       /\ context.lines[k].step.id = justId
                       /\ \A m \in 1..(k - 1) : context.lines[m].step.id # justId]
  ELSE Undefined

getFormula(context, justId) ==
  LET l == getLineInfo(context, justId)
  IN IF IsUndefined(l) THEN Undefined ELSE l.step.formula

\* context.lines[i], undefined past the end of the array.
LineAt(context, i) ==
  IF i >= 0 /\ i < Len(context.lines) THEN At(context.lines, i) ELSE Undefined

\* step.justification[k] for 0-based k; the rules only read positions below
\* the arity, which validateStep has checked.
Just(step, k) == At(step.justification, k)

\* !sub.isSubproofStart || sub.subproofEnd === undefined
NotCompleteSubproof(sub) == ~sub.isSubproofStart \/ sub.subproofEnd = NoEnd

\* !end || !formulaEquals(end.step.formula, f)
EndMismatch(context, sub, f) ==
  LET end == LineAt(context, sub.subproofEnd)
  IN IsUndefined(end) \/ ~formulaEquals(end.step.formula, f)

\* !end || end.step.formula.kind !== 'bottom'
EndNotBottom(context, sub) ==
  LET end == LineAt(context, sub.subproofEnd)
  IN IsUndefined(end) \/ end.step.formula.kind # "bottom"

AndIntroCase(step, context) ==
  LET left == getFormula(context, Just(step, 0))
      right == getFormula(context, Just(step, 1))
  IN IF IsUndefined(left) \/ IsUndefined(right)
     THEN <<Err(step, "INVALID_JUSTIFICATION")>>
     ELSE IF step.formula.kind # "and"
     THEN <<Err(step, "WRONG_CONCLUSION_TYPE")>>
     ELSE IF ~formulaEquals(step.formula.left, left)
             \/ ~formulaEquals(step.formula.right, right)
     THEN <<Err(step, "CONCLUSION_MISMATCH")>>
     ELSE <<>>

AndElimCase(step, context, side) ==
  LET conjunction == getFormula(context, Just(step, 0))
  IN IF IsUndefined(conjunction) \/ conjunction.kind # "and"
     THEN <<Err(step, "WRONG_PREMISE_TYPE")>>
     ELSE IF ~formulaEquals(step.formula,
                            IF side = "l" THEN conjunction.left ELSE conjunction.right)
     THEN <<Err(step, "CONCLUSION_MISMATCH")>>
     ELSE <<>>

OrIntroCase(step, context, side) ==
  LET operand == getFormula(context, Just(step, 0))
  IN IF IsUndefined(operand)
     THEN <<Err(step, "INVALID_JUSTIFICATION")>>
     ELSE IF step.formula.kind # "or"
     THEN <<Err(step, "WRONG_CONCLUSION_TYPE")>>
     ELSE IF ~formulaEquals(IF side = "l" THEN step.formula.left ELSE step.formula.right,
                            operand)
     THEN <<Err(step, "CONCLUSION_MISMATCH")>>
     ELSE <<>>

\* Disjunction elimination that never looks at the second subproof.
OrElimCase_firstOnly(step, context) ==
  LET disjunction == getFormula(context, Just(step, 0))
      sub1 == getLineInfo(context, Just(step, 1))
      sub2 == getLineInfo(context, Just(step, 2))
  IN IF IsUndefined(disjunction) \/ disjunction.kind # "or"
     THEN <<Err(step, "WRONG_PREMISE_TYPE")>>
     ELSE IF IsUndefined(sub1) \/ IsUndefined(sub2)
     THEN <<Err(step, "INVALID_JUSTIFICATION")>>
     ELSE IF NotCompleteSubproof(sub1)
     THEN <<Err(step, "INVALID_SUBPROOF")>>
     ELSE IF ~formulaEquals(sub1.step.formula, disjunction.left)
     THEN <<Err(step, "SUBPROOF_MISMATCH")>>
     ELSE IF EndMismatch(context, sub1, step.formula)
     THEN <<Err(step, "SUBPROOF_CONCLUSION_MISMATCH")>>
     ELSE <<>>

OrElimCase(step, context) ==
  LET disjunction == getFormula(context, Just(step, 0))
      sub1 == getLineInfo(context, Just(step, 1))
      sub2 == getLineInfo(context, Just(step, 2))
  IN IF IsUndefined(disjunction) \/ disjunction.kind # "or"
     THEN <<Err(step, "WRONG_PREMISE_TYPE")>>
     ELSE IF IsUndefined(sub1) \/ IsUndefined(sub2)
     THEN <<Err(step, "INVALID_JUSTIFICATION")>>
     ELSE IF NotCompleteSubproof(sub1)
     THEN <<Err(step, "INVALID_SUBPROOF")>>
     ELSE IF ~formulaEquals(sub1.step.formula, disjunction.left)
     THEN <<Err(step, "SUBPROOF_MISMATCH")>>
     ELSE IF EndMismatch(context, sub1, step.formula)
     THEN <<Err(step, "SUBPROOF_CONCLUSION_MISMATCH")>>
     ELSE IF NotCompleteSubproof(sub2)
     THEN <<Err(step, "INVALID_SUBPROOF")>>
     ELSE IF ~formulaEquals(sub2.step.formula, disjunction.right)
     THEN <<Err(step, "SUBPROOF_MISMATCH")>>
     ELSE IF EndMismatch(context, sub2, step.formula)
     THEN <<Err(step, "SUBPROOF_CONCLUSION_MISMATCH")>>
     ELSE <<>>

\* Conditional introduction that never compares the assumption with the antecedent.
ImpliesIntroCase_noAntecedent(step, context) ==
  LET subproofStart == getLineInfo(context, Just(step, 0))
  IN IF IsUndefined(subproofStart) \/ NotCompleteSubproof(subproofStart)
     THEN <<Err(step, "INVALID_SUBPROOF")>>
     ELSE IF step.formula.kind # "implies"
     THEN <<Err(step, "WRONG_CONCLUSION_TYPE")>>
     ELSE IF EndMismatch(context, subproofStart, step.formula.right)
     THEN <<Err(step, "SUBPROOF_CONCLUSION_MISMATCH")>>
     ELSE <<>>

ImpliesIntroCase(step, context) ==
  LET subproofStart == getLineInfo(context, Just(step, 0))
  IN IF IsUndefined(subproofStart) \/ NotCompleteSubproof(subproofStart)
     THEN <<Err(step, "INVALID_SUBPROOF")>>
     ELSE IF step.formula.kind # "implies"
     THEN <<Err(step, "WRONG_CONCLUSION_TYPE")>>
     ELSE IF ~formulaEquals(subproofStart.step.formula, step.formula.left)
     THEN <<Err(step, "SUBPROOF_MISMATCH")>>
     ELSE IF EndMismatch(context, subproofStart, step.formula.right)
     THEN <<Err(step, "SUBPROOF_CONCLUSION_MISMATCH")>>
     ELSE <<>>

ImpliesElimCase(step, context) ==
  LET conditional == getFormula(context, Just(step, 0))
      antecedent == getFormula(context, Just(step, 1))
  IN IF IsUndefined(conditional) \/ conditional.kind # "implies"
     THEN LET maybeConditional == antecedent
              maybeAntecedent == conditional
          IN IF /\ ~IsUndefined(maybeConditional)
                /\ maybeConditional.kind = "implies"
                /\ formulaEquals(maybeConditional.left, maybeAntecedent)
                /\ formulaEquals(maybeConditional.right, step.formula)
             THEN <<>>
             ELSE <<Err(step, "WRONG_PREMISE_TYPE")>>
     ELSE IF IsUndefined(antecedent)
     THEN <<Err(step, "INVALID_JUSTIFICATION")>>
     ELSE IF ~formulaEquals(conditional.left, antecedent)
     THEN <<Err(step, "CONCLUSION_MISMATCH")>>
     ELSE IF ~formulaEquals(conditional.right, step.formula)
     THEN <<Err(step, "CONCLUSION_MISMATCH")>>
     ELSE <<>>

NotIntroCase(step, context) ==
  LET subproofStart == getLineInfo(context, Just(step, 0))
  IN IF IsUndefined(subproofStart) \/ NotCompleteSubproof(subproofStart)
     THEN <<Err(step, "INVALID_SUBPROOF")>>
     ELSE IF step.formula.kind # "not"
     THEN <<Err(step, "WRONG_CONCLUSION_TYPE")>>
     ELSE IF ~formulaEquals(subproofStart.step.formula, step.formula.operand)
     THEN <<Err(step, "SUBPROOF_MISMATCH")>>
     ELSE IF EndNotBottom(context, subproofStart)
     THEN <<Err(step, "SUBPROOF_CONCLUSION_MISMATCH")>>
     ELSE <<>>

NotElimCase(step, context) ==
  LET doubleNeg == getFormula(context, Just(step, 0))
  IN IF IsUndefined(doubleNeg) \/ doubleNeg.kind # "not"
        \/ doubleNeg.operand.kind # "not"
     THEN <<Err(step, "WRONG_PREMISE_TYPE")>>
     ELSE IF ~formulaEquals(doubleNeg.operand.operand, step.formula)
     THEN <<Err(step, "CONCLUSION_MISMATCH")>>
     ELSE <<>>

IffIntroCase(step, context) ==
  LET impl1 == getFormula(context, Just(step, 0))
      impl2 == getFormula(context, Just(step, 1))
  IN IF IsUndefined(impl1) \/ impl1.kind # "implies"
        \/ IsUndefined(impl2) \/ impl2.kind # "implies"
     THEN <<Err(step, "WRONG_PREMISE_TYPE")>>
     ELSE IF step.formula.kind # "iff"
     THEN <<Err(step, "WRONG_CONCLUSION_TYPE")>>
     ELSE LET valid1 == /\ formulaEquals(impl1.left, step.formula.left)
                        /\ formulaEquals(impl1.right, step.formula.right)
                        /\ formulaEquals(impl2.left, step.formula.right)
                        /\ formulaEquals(impl2.right, step.formula.left)
              valid2 == /\ formulaEquals(impl2.left, step.formula.left)
                        /\ formulaEquals(impl2.right, step.formula.right)
                        /\ formulaEquals(impl1.left, step.formula.right)
                        /\ formulaEquals(impl1.right, step.formula.left)
          IN IF ~valid1 /\ ~valid2
             THEN <<Err(step, "CONCLUSION_MISMATCH")>>
             ELSE <<>>

IffElimCase(step, context) ==
  LET biconditional == getFormula(context, Just(step, 0))
      operand == getFormula(context, Just(step, 1))
  IN IF IsUndefined(biconditional) \/ biconditional.kind # "iff"
     THEN LET maybeBiff == operand
              maybeOp == biconditional
          IN IF /\ ~IsUndefined(maybeBiff)
                /\ maybeBiff.kind = "iff"
                /\ ~IsUndefined(maybeOp)
                /\ \/ (formulaEquals(maybeBiff.left, maybeOp)
                       /\ formulaEquals(maybeBiff.right, step.formula))
                   \/ (formulaEquals(maybeBiff.right, maybeOp)
                       /\ formulaEquals(maybeBiff.left, step.formula))
             THEN <<>>
             ELSE <<Err(step, "WRONG_PREMISE_TYPE")>>
     ELSE IF IsUndefined(operand)
     THEN <<Err(step, "INVALID_JUSTIFICATION")>>
     ELSE IF formulaEquals(biconditional.left, operand)
             /\ formulaEquals(biconditional.right, step.formula)
     THEN <<>>
     ELSE IF formulaEquals(biconditional.right, operand)
             /\ formulaEquals(biconditional.left, step.formula)
     THEN <<>>
     ELSE <<Err(step, "CONCLUSION_MISMATCH")>>

BottomElimCase(step, context) ==
  LET bottom == getFormula(context, Just(step, 0))
  IN IF IsUndefined(bottom) \/ bottom.kind # "bottom"
     THEN <<Err(step, "WRONG_PREMISE_TYPE")>>
     ELSE <<>>

RaaCase(step, context) ==
  LET subproofStart == getLineInfo(context, Just(step, 0))
  IN IF IsUndefined(subproofStart) \/ NotCompleteSubproof(subproofStart)
     THEN <<Err(step, "INVALID_SUBPROOF")>>
     ELSE LET assumption == subproofStart.step.formula
          IN IF assumption.kind # "not" \/ ~formulaEquals(assumption.operand, step.formula)
             THEN <<Err(step, "SUBPROOF_MISMATCH")>>
             ELSE IF EndNotBottom(context, subproofStart)
             THEN <<Err(step, "SUBPROOF_CONCLUSION_MISMATCH")>>
             ELSE <<>>

\* !step.theoremId: the field is absent or the empty string.
TheoremCase(step, context) ==
  IF step.theoremId = "" THEN <<Err(step, "MISSING_THEOREM_ID")>> ELSE <<>>

validateRuleApplication(step, context) ==
  CASE step.rule = "assumption" -> <<>>
    [] step.rule = "and_intro" -> AndIntroCase(step, context)
    [] step.rule = "and_elim_l" -> AndElimCase(step, context, "l")
    [] step.rule = "and_elim_r" -> AndElimCase(step, context, "r")
    [] step.rule = "or_intro_l" -> OrIntroCase(step, context, "l")
    [] step.rule = "or_intro_r" -> OrIntroCase(step, context, "r")
    [] step.rule = "or_elim" -> OrElimCase(step, context)
    [] step.rule = "implies_intro" -> ImpliesIntroCase(step, context)
    [] step.rule = "implies_elim" -> ImpliesElimCase(step, context)
    [] step.rule = "not_intro" -> NotIntroCase(step, context)
    [] step.rule = "not_elim" -> NotElimCase(step, context)
    [] step.rule = "iff_intro" -> IffIntroCase(step, context)
    [] step.rule = "iff_elim" -> IffElimCase(step, context)
    [] step.rule = "bottom_elim" -> BottomElimCase(step, context)
    [] step.rule = "raa" -> RaaCase(step, context)
    [] step.rule = "theorem" -> TheoremCase(step, context)
    [] OTHER -> <<Err(step, "UNKNOWN_RULE")>>

\* The loop of lines 57-74 over justification positions k..Len.
RECURSIVE JustificationErrors(_, _, _)
JustificationErrors(step, context, k) ==
  IF k > Len(step.justification) THEN <<>>
  ELSE LET justLine == getLineInfo(context, step.justification[k])
           here == IF IsUndefined(justLine)
                   THEN <<Err(step, "JUSTIFICATION_NOT_FOUND")>>
                   ELSE IF ~justLine.accessible
                        THEN <<Err(step, "INACCESSIBLE_JUSTIFICATION")>>
                        ELSE <<>>
       IN here \o JustificationErrors(step, context, k + 1)

\* validateStep without the return that follows the resolution loop: the rule
\* schema is applied although a justification failed to resolve.
validateStep_noReturn(step, context) ==
  LET count == getRequiredJustificationCount(step.rule)
  IN IF count = <<>>
     THEN [threw |-> TRUE, errors |-> <<>>]
     ELSE IF Len(step.justification) < count[1]
     THEN [threw |-> FALSE, errors |-> <<Err(step, "INSUFFICIENT_JUSTIFICATIONS")>>]
     ELSE IF Len(step.justification) > count[2]
     THEN [threw |-> FALSE, errors |-> <<Err(step, "TOO_MANY_JUSTIFICATIONS")>>]
     ELSE [threw |-> FALSE,
           errors |-> JustificationErrors(step, context, 1)
                      \o validateRuleApplication(step, context)]

\* The list of errors validateStep returns, or threw = TRUE when it raises:
\* const [minJust, maxJust] = undefined is a TypeError.
validateStep(step, context) ==
  LET count == getRequiredJustificationCount(step.rule)
  IN IF count = <<>>
     THEN [threw |-> TRUE, errors |-> <<>>]
     ELSE LET minJust == count[1]
              maxJust == count[2]
          IN IF Len(step.justification) < minJust
             THEN [threw |-> FALSE,
                   errors |-> <<Err(step, "INSUFFICIENT_JUSTIFICATIONS")>>]
             ELSE IF Len(step.justification) > maxJust
             THEN [threw |-> FALSE,
                   errors |-> <<Err(step, "TOO_MANY_JUSTIFICATIONS")>>]
             ELSE LET errors == JustificationErrors(step, context, 1)
                  IN IF Len(errors) > 0
                     THEN [threw |-> FALSE, errors |-> errors]
                     ELSE [threw |-> FALSE,
                           errors |-> validateRuleApplication(step, context)]

(***************************************************************************)
(* checker.ts: checkProof.                                                 *)
(***************************************************************************)
\* The stepId '' of the EMPTY_PROOF error; step ids are positive numbers.
EmptyId == 0

\* lines.slice(0, i + 1) with accessible recomputed from position i.
contextLines(lines, i, depth) ==
  [k \in 1..(i + 1) |->
     [lines[k] EXCEPT !.accessible = isLineAccessible(lines, k - 1, i, depth)]]

ContextOf(lines, i, step, prems) ==
  [lines |-> contextLines(lines, i, step.depth), currentIndex |-> i,
   currentDepth |-> step.depth, premises |-> prems]

\* theoremLibrary.find((t) => t.id === step.theoremId)
FindTheorem(theoremLibrary, step) ==
  IF \E k \in 1..Len(theoremLibrary) : theoremLibrary[k].id = step.theoremId
  THEN theoremLibrary[CHOOSE k \in 1..Len(theoremLibrary) :
                        /\ theoremLibrary[k].id = step.theoremId
                        /\ \A m \in 1..(k - 1) : theoremLibrary[m].id # step.theoremId]
  ELSE Undefined

\* One iteration without the premise shortcut.
CheckStep_noShortcut(proof, lines, i, prems, theoremLibrary) ==
  LET step == At(proof, i)
      context == ContextOf(lines, i, step, prems)
  IN IF step.rule = "theorem"
     THEN LET theorem == FindTheorem(theoremLibrary, step)
          IN IF IsUndefined(theorem)
             THEN [threw |-> FALSE, errors |-> <<Err(step, "THEOREM_NOT_FOUND")>>]
             ELSE IF ~formulaEquals(theorem.conclusion, step.formula)
             THEN [threw |-> FALSE, errors |-> <<Err(step, "THEOREM_MISMATCH")>>]
             ELSE [threw |-> FALSE, errors |-> <<>>]
     ELSE validateStep(step, context)

\* One iteration of the loop of lines 101-152: what step i adds to allErrors,
\* or threw = TRUE when validateStep raises.
CheckStep(proof, lines, i, prems, theoremLibrary) ==
  LET step == At(proof, i)
      context == ContextOf(lines, i, step, prems)
  IN IF step.rule = "assumption" /\ step.depth = 0 /\ isPremise(step.formula, prems)
     THEN [threw |-> FALSE, errors |-> <<>>]
     ELSE IF step.rule = "theorem"
     THEN LET theorem == FindTheorem(theoremLibrary, step)
          IN IF IsUndefined(theorem)
             THEN [threw |-> FALSE, errors |-> <<Err(step, "THEOREM_NOT_FOUND")>>]
             ELSE IF ~formulaEquals(theorem.conclusion, step.formula)
             THEN [threw |-> FALSE, errors |-> <<Err(step, "THEOREM_MISMATCH")>>]
             ELSE [threw |-> FALSE, errors |-> <<>>]
     ELSE validateStep(step, context)

\* A walk that gives up at the first step that has an error.
RECURSIVE CheckLoop_stopAtError(_, _, _, _, _, _)
CheckLoop_stopAtError(proof, lines, i, prems, theoremLibrary, acc) ==
  IF i >= Len(proof) THEN [threw |-> FALSE, errors |-> acc]
  ELSE LET r == CheckStep(proof, lines, i, prems, theoremLibrary)
       IN IF r.threw THEN [threw |-> TRUE, errors |-> acc]
          ELSE IF Len(r.errors) > 0 THEN [threw |-> FALSE, errors |-> acc \o r.errors]
          ELSE CheckLoop_stopAtError(proof, lines, i + 1, prems, theoremLibrary,
                                     acc \o r.errors)

\* allErrors after the iterations i .. steps.length - 1, started from acc.
RECURSIVE CheckLoop(_, _, _, _, _, _)
CheckLoop(proof, lines, i, prems, theoremLibrary, acc) ==
  IF i >= Len(proof) THEN [threw |-> FALSE, errors |-> acc]
  ELSE LET r == CheckStep(proof, lines, i, prems, theoremLibrary)
       IN IF r.threw THEN [threw |-> TRUE, errors |-> acc]
          ELSE CheckLoop(proof, lines, i + 1, prems, theoremLibrary, acc \o r.errors)

\* A completeness test that forgets the depth of the last step.
proofComplete_anyDepth(proof, concl) ==
  formulaEquals(At(proof, Len(proof) - 1).formula, concl)

\* const complete = lastStep.depth === 0 && formulaEquals(lastStep.formula, conclusion)
proofComplete(proof, concl) ==
  LET lastStep == At(proof, Len(proof) - 1)
  IN lastStep.depth = 0 /\ formulaEquals(lastStep.formula, concl)

\* threw = TRUE stands for an exception leaving checkProof: there is no
\* ProofCheckResult then and the other fields carry no meaning.
checkProof(proof, prems, concl, theoremLibrary) ==
  IF Len(proof) = 0
  THEN [threw |-> FALSE, valid |-> FALSE, complete |-> FALSE,
        errors |-> <<[stepId |-> EmptyId, code |-> "EMPTY_PROOF"]>>]
  ELSE LET lines == buildProofLineInfo(proof)
           walk == CheckLoop(proof, lines, 0, prems, theoremLibrary, <<>>)
           complete == proofComplete(proof, concl)
       IN IF walk.threw
          THEN [threw |-> TRUE, valid |-> FALSE, complete |-> FALSE, errors |-> <<>>]
          ELSE [threw |-> FALSE, valid |-> Len(walk.errors) = 0,
                complete |-> complete, errors |-> walk.errors]

\* validateNewStep: the context holds every line of existingSteps plus the
\* new step, with accessible computed from the new step's position.
validateNewStep(existingSteps, newStep, prems) ==
  LET allSteps == Append(existingSteps, newStep)
      lines == buildProofLineInfo(allSteps)
      currentIdx == Len(allSteps) - 1
      mapped == [k \in 1..Len(lines) |->
                   [lines[k] EXCEPT
                      !.accessible = isLineAccessible(lines, k - 1, currentIdx,
                                                      newStep.depth)]]
      context == [lines |-> mapped, currentIndex |-> currentIdx,
                  currentDepth |-> newStep.depth, premises |-> prems]
  IN IF newStep.rule = "assumption" /\ newStep.depth = 0
        /\ isPremise(newStep.formula, prems)
     THEN [threw |-> FALSE, errors |-> <<>>]
     ELSE validateStep(newStep, context)

(***************************************************************************)
(* The caller.  A step is appended with the next free id (generateStepId   *)
(* counts up), and the proof is checked again with an empty theorem        *)
(* library.                                                                *)
(***************************************************************************)
P == Var("P")

NewStep(f, r, j, d) ==
  [id |-> Len(steps) + 1, formula |-> f, rule |-> r, justification |-> j,
   depth |-> d, theoremId |-> ""]

AppendStep(f, r, j, d) ==
  /\ steps' = Append(steps, NewStep(f, r, j, d))
  /\ result' = checkProof(steps', premises, conclusion, <<>>)
  /\ UNCHANGED <<premises, conclusion, input, parsed, built, query, answer>>

\* The truth-table engine has not been called.
NothingAsked ==
  /\ query = <<>>
  /\ answer = <<>>

\* The formula field is empty, no formula has been built and no table asked for.
NothingTyped ==
  /\ input = <<>>
  /\ parsed = parseFormula(<<>>)
  /\ built = Bottom
  /\ NothingAsked

\* Ids a new step can cite: the earlier steps and itself.
Citable == 1..(Len(steps) + 1)

\* The last two earlier steps, the new step itself, and an id no step has yet.
NearIds == {k \in (Len(steps) - 1)..(Len(steps) + 2) : k >= 1}

(***************************************************************************)
(* Spec: subproof structure.  Assumptions and conditional introductions    *)
(* at every depth, citing every earlier step or the step itself.           *)
(***************************************************************************)
ScopeFormulas == {P, Implies(P, P)}

Init ==
  /\ steps = <<>>
  /\ premises \in {<<>>, <<P>>}
  /\ conclusion = Implies(P, P)
  /\ result = checkProof(<<>>, premises, conclusion, <<>>)
  /\ NothingTyped

AddAssumption ==
  /\ Len(steps) < MaxSteps
  /\ \E f \in ScopeFormulas, d \in 0..MaxDepth : AppendStep(f, "assumption", <<>>, d)

AddImpliesIntro ==
  /\ Len(steps) < MaxSteps
  /\ \E f \in ScopeFormulas, d \in 0..MaxDepth, j \in Citable :
       AppendStep(f, "implies_intro", <<j>>, d)

Next == AddAssumption \/ AddImpliesIntro

Spec == Init /\ [][Next]_vars

(***************************************************************************)
(* SpecRefs: reference resolution.  Assumptions at every depth, and at     *)
(* depth 0 rules of arity 1 and 2 and a tag outside the enumeration,       *)
(* citing earlier steps, the step itself and ids that resolve to nothing.  *)
(***************************************************************************)
RefFormulas == {P, Bottom}

InitRefs ==
  /\ steps = <<>>
  /\ premises = <<>>
  /\ conclusion = Bottom
  /\ result = checkProof(<<>>, premises, conclusion, <<>>)
  /\ NothingTyped

RefAssumption ==
  /\ Len(steps) < MaxRefSteps
  /\ \E f \in RefFormulas, d \in 0..MaxRefDepth : AppendStep(f, "assumption", <<>>, d)

RefBottomElim ==
  /\ Len(steps) < MaxRefSteps
  /\ \E f \in RefFormulas, j \in NearIds : AppendStep(f, "bottom_elim", <<j>>, 0)

RefAndIntro ==
  /\ Len(steps) < MaxRefSteps
  /\ \E j1 \in NearIds, j2 \in NearIds : AppendStep(And(P, P), "and_intro", <<j1, j2>>, 0)

RefUnknownRule ==
  /\ Len(steps) < MaxRefSteps
  /\ AppendStep(P, "bogus", <<>>, 0)

NextRefs == RefAssumption \/ RefBottomElim \/ RefAndIntro \/ RefUnknownRule

SpecRefs == InitRefs /\ [][NextRefs]_vars

(***************************************************************************)
(* SpecElim: the two-premise elimination rules at depth 0, over formulas   *)
(* whose antecedent (or side) is itself a conditional (biconditional).     *)
(***************************************************************************)
ElimFormulas ==
  {P, Implies(P, P), Implies(Implies(P, P), P), Iff(P, P), Iff(Iff(P, P), P)}

InitElim ==
  /\ steps = <<>>
  /\ premises = <<>>
  /\ conclusion = P
  /\ result = checkProof(<<>>, premises, conclusion, <<>>)
  /\ NothingTyped

ElimAssumption ==
  /\ Len(steps) < MaxElimSteps
  /\ \E f \in ElimFormulas : AppendStep(f, "assumption", <<>>, 0)

ElimImplies ==
  /\ Len(steps) < MaxElimSteps
  /\ \E f \in ElimFormulas, j1 \in 1..Len(steps), j2 \in 1..Len(steps) :
       AppendStep(f, "implies_elim", <<j1, j2>>, 0)

ElimIff ==
  /\ Len(steps) < MaxElimSteps
  /\ \E f \in ElimFormulas, j1 \in 1..Len(steps), j2 \in 1..Len(steps) :
       AppendStep(f, "iff_elim", <<j1, j2>>, 0)

NextElim == ElimAssumption \/ ElimImplies \/ ElimIff

SpecElim == InitElim /\ [][NextElim]_vars

(***************************************************************************)
(* SpecOr: disjunction elimination.  The first step is the cited           *)
(* disjunction (or something else); assumptions open one-line or longer    *)
(* subproofs at depth 1, and or_elim cites two earlier steps as subproofs. *)
(***************************************************************************)
Q == Var("Q")

OrFormulas == {P, Q, Or(P, P)}

OrDepths == {0, 1}

InitOr ==
  /\ steps = <<>>
  /\ premises = <<>>
  /\ conclusion = P
  /\ result = checkProof(<<>>, premises, conclusion, <<>>)
  /\ NothingTyped

OrAssumption ==
  /\ Len(steps) < MaxOrSteps
  /\ \E f \in OrFormulas, d \in OrDepths : AppendStep(f, "assumption", <<>>, d)

OrElim ==
  /\ Len(steps) < MaxOrSteps
  /\ \E f \in {P, Q}, d \in OrDepths, j2 \in 2..Len(steps), j3 \in 2..Len(steps) :
       AppendStep(f, "or_elim", <<1, j2, j3>>, d)

NextOr == OrAssumption \/ OrElim

SpecOr == InitOr /\ [][NextOr]_vars

(***************************************************************************)
(* SpecAccess: accessibility over arbitrary depth columns.  Every formula  *)
(* is Bottom, which is also the premise, so that a citation is refused     *)
(* only for being inaccessible; assumptions may carry a justification.     *)
(***************************************************************************)
AccessDepths == 0..2

\* The previous step, and an id that no step of the proof has.
PrevOrDangling == {k \in {Len(steps), Len(steps) + 2} : k >= 1}

InitAccess ==
  /\ steps = <<>>
  /\ premises = <<Bottom>>
  /\ conclusion = Bottom
  /\ result = checkProof(<<>>, premises, conclusion, <<>>)
  /\ NothingTyped

AccessAssumption ==
  /\ Len(steps) < MaxAccessSteps
  /\ \E d \in AccessDepths : AppendStep(Bottom, "assumption", <<>>, d)

AccessJustifiedAssumption ==
  /\ Len(steps) < MaxAccessSteps
  /\ \E d \in {0, 1}, j \in PrevOrDangling : AppendStep(Bottom, "assumption", <<j>>, d)

AccessCite ==
  /\ Len(steps) < MaxAccessSteps
  /\ \E d \in AccessDepths, j \in 1..Len(steps) : AppendStep(Bottom, "bottom_elim", <<j>>, d)

NextAccess == AccessAssumption \/ AccessJustifiedAssumption \/ AccessCite

SpecAccess == InitAccess /\ [][NextAccess]_vars

(***************************************************************************)
(* SpecArity: every rule but theorem with zero to four justifications,     *)
(* made of the id of the first step and of an id that no step has.         *)
(***************************************************************************)
ArityRules == InferenceRules \ {"theorem"}

\* An id that resolves to nothing: the first one no step of the proof can have.
DanglingId == MaxAritySteps + 1

JustificationLists ==
  {<<>>, <<1>>, <<DanglingId>>, <<1, 1>>, <<1, DanglingId>>, <<1, 1, 1>>,
   <<1, DanglingId, 1>>, <<1, 1, DanglingId, 1>>}

InitArity ==
  /\ steps = <<>>
  /\ premises \in {<<>>, <<P>>}
  /\ conclusion = P
  /\ result = checkProof(<<>>, premises, conclusion, <<>>)
  /\ NothingTyped

ArityStep ==
  /\ Len(steps) < MaxAritySteps
  /\ \E r \in ArityRules, j \in JustificationLists : AppendStep(P, r, j, 0)

NextArity == ArityStep

SpecArity == InitArity /\ [][NextArity]_vars

(***************************************************************************)
(* SpecPrint: a formula is built with the constructors of types.ts from an *)
(* atom the parser produces, one connective at a time; each time it is     *)
(* printed in one of the two modes and the text is parsed again.           *)
(***************************************************************************)
Modes == {"ascii", "utf8"}

Connect(kind, l, r) ==
  CASE kind = "and" -> And(l, r)
    [] kind = "or" -> Or(l, r)
    [] kind = "implies" -> Implies(l, r)
    [] kind = "iff" -> Iff(l, r)

RECURSIVE FormulaDepth(_)
FormulaDepth(f) ==
  CASE f.kind \in {"var", "bottom"} -> 0
    [] f.kind = "not" -> 1 + FormulaDepth(f.operand)
    [] OTHER -> LET Greater(l, r) == IF l >= r THEN l ELSE r
                IN 1 + Greater(FormulaDepth(f.left), FormulaDepth(f.right))

\* An identifier, the falsum, an identifier with a digit, and single characters
\* of no lexeme.
AtomTexts == {<<"P">>, <<"_", "|", "_">>, <<"x", "1">>, <<"@">>, <<"-">>, <<"_">>}

PrintAtoms == {parseFormula(t).value : t \in AtomTexts}

PVar == Var(<<"P">>)

PrintAndParse(f, m) ==
  /\ built' = f
  /\ input' = printFormula(f, m)
  /\ parsed' = parseFormula(input')
  /\ UNCHANGED <<steps, premises, conclusion, result, query, answer>>

InitPrint ==
  /\ steps = <<>>
  /\ premises = <<>>
  /\ conclusion = Bottom
  /\ result = checkProof(<<>>, premises, conclusion, <<>>)
  /\ built \in PrintAtoms
  /\ \E m \in Modes : input = printFormula(built, m)
  /\ parsed = parseFormula(input)
  /\ NothingAsked

BuildNot ==
  /\ FormulaDepth(built) < MaxFormulaDepth
  /\ \E m \in Modes : PrintAndParse(Not(built), m)

BuildLeft ==
  /\ FormulaDepth(built) < MaxFormulaDepth
  /\ \E k \in BinaryKinds, m \in Modes : PrintAndParse(Connect(k, built, PVar), m)

BuildRight ==
  /\ FormulaDepth(built) < MaxFormulaDepth
  /\ \E k \in BinaryKinds, m \in Modes : PrintAndParse(Connect(k, PVar, built), m)

BuildBoth ==
  /\ FormulaDepth(built) < MaxFormulaDepth
  /\ \E k \in BinaryKinds, m \in Modes : PrintAndParse(Connect(k, built, built), m)

NextPrint == BuildNot \/ BuildLeft \/ BuildRight \/ BuildBoth

SpecPrint == InitPrint /\ [][NextPrint]_vars

(***************************************************************************)
(* SpecParse: a text is typed one character at a time and parsed after     *)
(* each keystroke.  Every character is a token of its own: a variable,     *)
(* the five operator signs and the two parentheses.                        *)
(***************************************************************************)
ParseChars == {"P", NotSign, AndSign, OrSign, ImpliesSign, IffSign, "(", ")"}

Type(c) ==
  /\ input' = Append(input, c)
  /\ parsed' = parseFormula(input')
  /\ UNCHANGED <<steps, premises, conclusion, result, built, query, answer>>

InitParse ==
  /\ steps = <<>>
  /\ premises = <<>>
  /\ conclusion = Bottom
  /\ result = checkProof(<<>>, premises, conclusion, <<>>)
  /\ NothingTyped

TypeChar ==
  /\ Len(input) < MaxInputLen
  /\ \E c \in ParseChars : Type(c)

NextParse == TypeChar

SpecParse == InitParse /\ [][NextParse]_vars

(***************************************************************************)
(* SpecLex: the same typing, over ASCII: a letter, a digit, the characters *)
(* of the lexemes ->, _|_ and |, which also occur alone, a character of no *)
(* lexeme, a space and the parentheses.                                    *)
(***************************************************************************)
LexChars == {"P", "1", "@", "-", ">", "_", "|", " ", "(", ")"}

InitLex ==
  /\ steps = <<>>
  /\ premises = <<>>
  /\ conclusion = Bottom
  /\ result = checkProof(<<>>, premises, conclusion, <<>>)
  /\ NothingTyped

TypeLexChar ==
  /\ Len(input) < MaxLexLen
  /\ \E c \in LexChars : Type(c)

NextLex == TypeLexChar

SpecLex == InitLex /\ [][NextLex]_vars

(***************************************************************************)
(* SpecTable: the playground shows the truth table of a formula, which     *)
(* grows by one connective at a time or is a conjunction of many           *)
(* variables.                                                              *)
(***************************************************************************)
MaxTableDepth == 2

TableAtoms == {Var("R"), Var("P"), Bottom}

TableOperands == {Var("Q"), Var("P"), Var("A")}

\* Numbers of variables at which 1 << n no longer is 2^n.
WideCounts == {31, 32, 33}

\* The conjunction of the first n variable names.
RECURSIVE Wide(_)
Wide(n) == IF n = 1 THEN Var(NameOrder[1]) ELSE And(Wide(n - 1), Var(NameOrder[n]))

Tabulate(f) ==
  /\ built' = f
  /\ query' = <<f>>
  /\ answer' = generateTruthTable(f)
  /\ UNCHANGED <<steps, premises, conclusion, result, input, parsed>>

InitTable ==
  /\ steps = <<>>
  /\ premises = <<>>
  /\ conclusion = Bottom
  /\ result = checkProof(<<>>, premises, conclusion, <<>>)
  /\ input = <<>>
  /\ parsed = parseFormula(<<>>)
  /\ built \in TableAtoms
  /\ query = <<built>>
  /\ answer = generateTruthTable(built)

TableNot ==
  /\ FormulaDepth(built) < MaxTableDepth
  /\ Tabulate(Not(built))

TableLeft ==
  /\ FormulaDepth(built) < MaxTableDepth
  /\ \E k \in BinaryKinds, f \in TableOperands : Tabulate(Connect(k, built, f))

TableRight ==
  /\ FormulaDepth(built) < MaxTableDepth
  /\ \E k \in BinaryKinds, f \in TableOperands : Tabulate(Connect(k, f, built))

TableWide ==
  /\ FormulaDepth(built) < MaxTableDepth
  /\ \E n \in WideCounts : Tabulate(Wide(n))

NextTable == TableNot \/ TableLeft \/ TableRight \/ TableWide

SpecTable == InitTable /\ [][NextTable]_vars

(***************************************************************************)
(* SpecEntail: an argument is put together, a premise or a conclusion at a *)
(* time, and each time asked whether it is valid and for a counterexample. *)
(***************************************************************************)
MaxPremises == 2

EntailFormulas ==
  {Var("P"), Var("Q"), Var("A"), Not(Var("P")), Implies(Var("P"), Var("Q")),
   Or(Var("Q"), Var("A")), And(Var("R"), Var("P")), Bottom, Wide(33)}

Ask(prems, concl) ==
  /\ query' = <<prems, concl>>
  /\ answer' = [entails |-> entails(prems, concl),
                counterexample |-> findCounterexample(prems, concl)]
  /\ UNCHANGED <<steps, premises, conclusion, result, input, parsed, built>>

InitEntail ==
  /\ steps = <<>>
  /\ premises = <<>>
  /\ conclusion = Bottom
  /\ result = checkProof(<<>>, premises, conclusion, <<>>)
  /\ input = <<>>
  /\ parsed = parseFormula(<<>>)
  /\ built = Bottom
  /\ \E c \in EntailFormulas :
       /\ query = <<<<>>, c>>
       /\ answer = [entails |-> entails(<<>>, c),
                    counterexample |-> findCounterexample(<<>>, c)]

AddPremise ==
  /\ Len(query[1]) < MaxPremises
  /\ \E f \in EntailFormulas : Ask(Append(query[1], f), query[2])

ChangeConclusion ==
  \E c \in EntailFormulas : Ask(query[1], c)

NextEntail == AddPremise \/ ChangeConclusion

SpecEntail == InitEntail /\ [][NextEntail]_vars

(***************************************************************************)
(* SpecEval: a formula grows by one connective at a time and is evaluated  *)
(* under an assignment that gives values to some of the names.             *)
(***************************************************************************)
MaxEvalDepth == 2

EvalAtoms == {Var("P"), Var("constructor"), Bottom}

EvalOperands == {Var("Q"), Bottom}

\* The assignments over a submitted variable order within P, Q.
EvalAssignments == UNION {[S -> BOOLEAN] : S \in SUBSET {"P", "Q"}}

Evaluate(f, a) ==
  /\ built' = f
  /\ query' = <<f, a>>
  /\ answer' = evaluate(f, a)
  /\ UNCHANGED <<steps, premises, conclusion, result, input, parsed>>

InitEval ==
  /\ steps = <<>>
  /\ premises = <<>>
  /\ conclusion = Bottom
  /\ result = checkProof(<<>>, premises, conclusion, <<>>)
  /\ input = <<>>
  /\ parsed = parseFormula(<<>>)
  /\ built \in EvalAtoms
  /\ \E a \in EvalAssignments :
       /\ query = <<built, a>>
       /\ answer = evaluate(built, a)

EvalNot ==
  /\ FormulaDepth(built) < MaxEvalDepth
  /\ \E a \in EvalAssignments : Evaluate(Not(built), a)

EvalLeft ==
  /\ FormulaDepth(built) < MaxEvalDepth
  /\ \E k \in BinaryKinds, f \in EvalOperands, a \in EvalAssignments :
       Evaluate(Connect(k, built, f), a)

EvalRight ==
  /\ FormulaDepth(built) < MaxEvalDepth
  /\ \E k \in BinaryKinds, f \in EvalOperands, a \in EvalAssignments :
       Evaluate(Connect(k, f, built), a)

NextEval == EvalNot \/ EvalLeft \/ EvalRight

SpecEval == InitEval /\ [][NextEval]_vars

(***************************************************************************)
(* SpecScopes: the scope structure over arbitrary depth and rule columns.  *)
(* Every step is an assumption or a step of another rule, at any depth.    *)
(***************************************************************************)
MaxScopeSteps == 4

ScopeDepths == 0..3

InitScopes ==
  /\ steps = <<>>
  /\ premises = <<>>
  /\ conclusion = Bottom
  /\ result = checkProof(<<>>, premises, conclusion, <<>>)
  /\ NothingTyped

ScopeAssumption ==
  /\ Len(steps) < MaxScopeSteps
  /\ \E d \in ScopeDepths : AppendStep(Bottom, "assumption", <<>>, d)

ScopeOtherRule ==
  /\ Len(steps) < MaxScopeSteps
  /\ \E d \in ScopeDepths : AppendStep(Bottom, "bottom_elim", <<>>, d)

NextScopes == ScopeAssumption \/ ScopeOtherRule

SpecScopes == InitScopes /\ [][NextScopes]_vars

(***************************************************************************)
(* SpecNew: steps of four rules, among them citations of a theorem with    *)
(* and without a theorem id, appended at depth 0 and 1 and checked with an *)
(* empty theorem library.                                                  *)
(***************************************************************************)
MaxNewSteps == 3

NewDepths == {0, 1}

TheoremIds == {"", "T1"}

AppendTheorem(f, id, d) ==
  /\ steps' = Append(steps, [NewStep(f, "theorem", <<>>, d) EXCEPT !.theoremId = id])
  /\ result' = checkProof(steps', premises, conclusion, <<>>)
  /\ UNCHANGED <<premises, conclusion, input, parsed, built, query, answer>>

InitNew ==
  /\ steps = <<>>
  /\ premises = <<P>>
  /\ conclusion = Implies(P, P)
  /\ result = checkProof(<<>>, premises, conclusion, <<>>)
  /\ NothingTyped

NewAssumption ==
  /\ Len(steps) < MaxNewSteps
  /\ \E f \in {P, Bottom}, d \in NewDepths : AppendStep(f, "assumption", <<>>, d)

NewBottomElim ==
  /\ Len(steps) < MaxNewSteps
  /\ \E j \in Citable, d \in NewDepths : AppendStep(P, "bottom_elim", <<j>>, d)

NewImpliesIntro ==
  /\ Len(steps) < MaxNewSteps
  /\ \E j \in Citable, d \in NewDepths : AppendStep(Implies(P, P), "implies_intro", <<j>>, d)

NewTheorem ==
  /\ Len(steps) < MaxNewSteps
  /\ \E id \in TheoremIds, d \in NewDepths : AppendTheorem(P, id, d)

NextNew == NewAssumption \/ NewBottomElim \/ NewImpliesIntro \/ NewTheorem

SpecNew == InitNew /\ [][NextNew]_vars

(***************************************************************************)
(* Vocabulary of the properties.                                           *)
(***************************************************************************)
Lines == buildProofLineInfo(steps)

Returned == ~result.threw

\* Steps are numbered from 1 and step i has id i.
StepIds == 1..Len(steps)

ErrorsOf(i) == SelectSeq(result.errors, LAMBDA e : e.stepId = i)

HasError(i, code) == \E k \in 1..Len(result.errors) :
                        result.errors[k].stepId = i /\ result.errors[k].code = code

Accepted(i) == Returned /\ Len(ErrorsOf(i)) = 0

PremiseShortcut(i) ==
  /\ steps[i].rule = "assumption"
  /\ steps[i].depth = 0
  /\ \E k \in 1..Len(premises) : premises[k] = steps[i].formula

\* Step i passes the premise shortcut, the theorem branch and the arity
\* check, so that its justifications are resolved.
ReachesResolution(i) ==
  /\ ~PremiseShortcut(i)
  /\ steps[i].rule \in InferenceRules \ {"theorem"}
  /\ Len(steps[i].justification) = getRequiredJustificationCount(steps[i].rule)[1]

\* The scope opened at step s (1-based) covers step t and is closed before step c.
ClosedScopeAround(s, t, c) ==
  /\ Lines[s].isSubproofStart
  /\ s <= t
  /\ t - 1 <= Lines[s].subproofEnd
  /\ c - 1 > Lines[s].subproofEnd

\* Position k of step c's justification cites a subproof by its opening assumption.
SubproofHandle(c, k) ==
  /\ usesSubproofJustification(steps[c].rule)
  /\ steps[c].rule = "or_elim" => k \in {2, 3}

(***************************************************************************)
(* C1  Checker soundness: a proof accepted as valid and complete has its   *)
(* conclusion entailed by its premises.                                    *)
(***************************************************************************)
C1_Soundness ==
  (Returned /\ result.valid /\ result.complete) => entails(premises, conclusion)

(***************************************************************************)
(* C2  Closed subproofs are unreachable: a step c whose justification      *)
(* cites an earlier step t inside a scope that was closed before c gets    *)
(* an INACCESSIBLE_JUSTIFICATION error, unless it cites that scope's       *)
(* opening assumption as a subproof handle.                                *)
(***************************************************************************)
C2_ClosedSubproofsUnreachable ==
  Returned =>
    \A c \in StepIds :
      ReachesResolution(c) =>
        \A k \in 1..Len(steps[c].justification) :
          LET t == steps[c].justification[k]
          IN (/\ t < c
              /\ \E s \in StepIds :
                   /\ ClosedScopeAround(s, t, c)
                   /\ ~(s = t /\ SubproofHandle(c, k)))
             => HasError(c, "INACCESSIBLE_JUSTIFICATION")

(***************************************************************************)
(* C3  An assumption is accepted only as a premise or as a subproof        *)
(* opener: an assumption step without error is a depth-0 step whose        *)
(* formula is a premise, or opens a scope one level below its context.     *)
(***************************************************************************)
\* Depth of the innermost scope that strictly encloses step i, 0 if none.
ContextDepth(i) ==
  LET enclosing == {s \in 1..(i - 1) :
                      Lines[s].isSubproofStart /\ i - 1 <= Lines[s].subproofEnd}
  IN IF enclosing = {} THEN 0
     ELSE steps[CHOOSE s \in enclosing : \A s2 \in enclosing : s2 <= s].depth

C3_AssumptionPremiseOrOpener ==
  Returned =>
    \A i \in StepIds :
      (steps[i].rule = "assumption" /\ Len(ErrorsOf(i)) = 0) =>
        \/ PremiseShortcut(i)
        \/ (Lines[i].isSubproofStart /\ steps[i].depth = ContextDepth(i) + 1)

(***************************************************************************)
(* C4  Justifications point strictly at earlier steps: a step citing its   *)
(* own id or the id of a later step gets JUSTIFICATION_NOT_FOUND.          *)
(***************************************************************************)
C4_JustificationsStrictlyEarlier ==
  Returned =>
    \A c \in StepIds :
      ReachesResolution(c) =>
        \A k \in 1..Len(steps[c].justification) :
          steps[c].justification[k] >= c => HasError(c, "JUSTIFICATION_NOT_FOUND")

(***************************************************************************)
(* C5  The checker is total: checkProof returns a result for every step    *)
(* list, and a step with a rule outside the 16 tags gets UNKNOWN_RULE.     *)
(***************************************************************************)
C5_CheckerTotal ==
  /\ Returned
  /\ \A i \in StepIds :
       steps[i].rule \notin InferenceRules => HasError(i, "UNKNOWN_RULE")

(***************************************************************************)
(* C6  For a non-empty proof, valid holds iff the errors list is empty and *)
(* complete holds iff the last step is at depth 0 with the conclusion as   *)
(* its formula, whether or not any step has an error.                      *)
(***************************************************************************)
C6_ValidAndComplete ==
  (Returned /\ Len(steps) > 0) =>
    /\ result.valid <=> Len(result.errors) = 0
    /\ result.complete <=>
         (steps[Len(steps)].depth = 0 /\ steps[Len(steps)].formula = conclusion)

\* A proof with an error whose last line is nevertheless the conclusion at depth 0.
C6_Witness ==
  /\ Returned
  /\ Len(steps) > 1
  /\ ~result.valid
  /\ result.complete
  /\ Len(ErrorsOf(Len(steps))) = 0

ResolutionCodes == {"JUSTIFICATION_NOT_FOUND", "INACCESSIBLE_JUSTIFICATION"}

FormulaOf(id) == steps[id].formula

\* The proof with the justification list of step c reversed.
Swapped(c) ==
  [steps EXCEPT ![c].justification = <<steps[c].justification[2], steps[c].justification[1]>>]

AcceptedIn(res, c) ==
  ~res.threw /\ \A k \in 1..Len(res.errors) : res.errors[k].stepId # c

C8_ImpliesElimEitherOrder ==
  Returned =>
    \A c \in StepIds :
      steps[c].rule = "implies_elim" =>
        LET J1 == FormulaOf(steps[c].justification[1])
            J2 == FormulaOf(steps[c].justification[2])
            E == steps[c].formula
        IN /\ Accepted(c) <=> (J1 = Implies(J2, E) \/ J2 = Implies(J1, E))
           /\ Accepted(c) <=>
                AcceptedIn(checkProof(Swapped(c), premises, conclusion, <<>>), c)

(***************************************************************************)
(* C9  iff_elim accepts either order of its justifications: a step E       *)
(* citing J1, J2 has no error iff one of them is Iff(A, B), the other is   *)
(* one side and E the opposite side; reversing the ids changes nothing.    *)
(***************************************************************************)
IffElimSchema(X, Y, E) ==
  /\ X.kind = "iff"
  /\ \/ (X.left = Y /\ X.right = E)
     \/ (X.right = Y /\ X.left = E)

C9_IffElimEitherOrder ==
  Returned =>
    \A c \in StepIds :
      steps[c].rule = "iff_elim" =>
        LET J1 == FormulaOf(steps[c].justification[1])
            J2 == FormulaOf(steps[c].justification[2])
            E == steps[c].formula
        IN /\ Accepted(c) <=> (IffElimSchema(J1, J2, E) \/ IffElimSchema(J2, J1, E))
           /\ Accepted(c) <=>
                AcceptedIn(checkProof(Swapped(c), premises, conclusion, <<>>), c)

(***************************************************************************)
(* C10  implies_intro: a step E citing one accessible earlier step J1 has  *)
(* no error iff J1 opens a subproof, E = Implies(A, B), A is the formula   *)
(* of J1 and B the formula of the line at J1's subproofEnd; and citing the *)
(* opener of the subproof that has just been closed, from the depth        *)
(* around it, gives no INACCESSIBLE_JUSTIFICATION.                         *)
(***************************************************************************)
\* Step c is an implies_intro whose one justification resolves to the
\* earlier, accessible step t.
IntroCites(c, t) ==
  /\ steps[c].rule = "implies_intro"
  /\ steps[c].justification = <<t>>
  /\ t < c
  /\ isLineAccessible(Lines, t - 1, c - 1, steps[c].depth)

\* E = Implies(A, B) with A the assumption of t and B the line at its subproofEnd.
IntroSchema(c, t) ==
  /\ Lines[t].isSubproofStart
  /\ steps[c].formula.kind = "implies"
  /\ steps[c].formula.left = steps[t].formula
  /\ steps[c].formula.right = steps[Lines[t].subproofEnd + 1].formula

\* Step c is the first step after the subproof opened at t.
JustClosed(c, t) ==
  /\ Lines[t].isSubproofStart
  /\ Lines[t].subproofEnd = c - 2

OrCites(L, c) ==
  /\ steps[c].rule = "or_elim"
  /\ Len(steps[c].justification) = 3
  /\ \A k \in 1..3 :
       /\ steps[c].justification[k] < c
       /\ isLineAccessible(L, steps[c].justification[k] - 1, c - 1, steps[c].depth)

\* Step t opens a subproof whose assumption is X and whose last line is the
\* formula of step c.
OrSubproof(L, c, t, X) ==
  /\ L[t].isSubproofStart
  /\ steps[t].formula = X
  /\ steps[L[t].subproofEnd + 1].formula = steps[c].formula

OrElimSchema(L, c) ==
  LET J1 == FormulaOf(steps[c].justification[1])
  IN /\ J1.kind = "or"
     /\ OrSubproof(L, c, steps[c].justification[2], J1.left)
     /\ OrSubproof(L, c, steps[c].justification[3], J1.right)

\* Steps s < t open subproofs at the same depth with nothing shallower and
\* no other opener of that depth between them.
ConsecutiveSubproofs(L, s, t) ==
  /\ s < t
  /\ L[s].isSubproofStart
  /\ L[t].isSubproofStart
  /\ steps[s].depth = steps[t].depth
  /\ \A m \in (s + 1)..(t - 1) :
       /\ steps[m].depth >= steps[s].depth
       /\ ~(L[m].isSubproofStart /\ steps[m].depth = steps[s].depth)

SiblingScopesDistinct(L) ==
  \A s \in StepIds, t \in StepIds :
    ConsecutiveSubproofs(L, s, t) => L[s].subproofEnd = t - 2

ScopeContains(L, s, i) ==
  /\ L[s].isSubproofStart
  /\ s <= i
  /\ i - 1 <= L[s].subproofEnd

EveryScopeOfTargetHoldsCiter(L, t, c) ==
  \A s \in StepIds : ScopeContains(L, s, t) => ScopeContains(L, s, c)

C12_NoFalseInaccessibility ==
  Returned =>
    LET L == Lines
    IN \A c \in StepIds, t \in StepIds :
         (/\ ReachesResolution(c)
          /\ steps[c].justification = <<t>>
          /\ t < c
          /\ EveryScopeOfTargetHoldsCiter(L, t, c))
         => ~HasError(c, "INACCESSIBLE_JUSTIFICATION")

(***************************************************************************)
(* C13  Accessibility determinism: in a proof of n >= 2 steps, whether     *)
(* step t is accessible from step c, for t <= c <= n-2 (0-based), is the   *)
(* same on the whole proof and on the proof without its last step.         *)
(***************************************************************************)
WithoutLast == SubSeq(steps, 1, Len(steps) - 1)

C13_AccessibilityDeterminism ==
  Len(steps) >= 2 =>
    LET whole == buildProofLineInfo(steps)
        shorter == buildProofLineInfo(WithoutLast)
    IN \A c \in 0..(Len(steps) - 2) :
         \A t \in 0..c :
           isLineAccessible(whole, t, c, At(steps, c).depth)
             = isLineAccessible(shorter, t, c, At(steps, c).depth)

\* The last step extends a scope that holds a deeper target t and its citer
\* c: the scope's end differs between the two proofs, and t stays accessible.
C13_Witness ==
  /\ Len(steps) >= 2
  /\ LET whole == buildProofLineInfo(steps)
         shorter == buildProofLineInfo(WithoutLast)
     IN \E c \in 0..(Len(steps) - 2) :
          \E t \in 0..(c - 1) :
            LET ancestors == getSubproofAncestors(whole, t)
            IN /\ Len(ancestors) > 0
               /\ \E k \in 1..Len(ancestors) :
                    At(whole, ancestors[k]).subproofEnd
                      # At(shorter, ancestors[k]).subproofEnd
               /\ isLineAccessible(whole, t, c, At(steps, c).depth)
               /\ Returned
               /\ steps[c + 1].justification = <<t + 1>>
               /\ Accepted(c + 1)

(***************************************************************************)
(* C14  Proof checking is accumulative and ordered: the errors list is the *)
(* concatenation, in step order, of the errors of each step; a step with   *)
(* an error does not keep later steps from being checked; and the errors   *)
(* of the other steps are those they would have if that step had none.     *)
(***************************************************************************)
\* What the check of step i alone reports (i is 1-based).
OwnErrors(L, i) == CheckStep(steps, L, i - 1, premises, <<>>).errors

RECURSIVE ConcatOwnErrors(_, _)
ConcatOwnErrors(L, i) ==
  IF i > Len(steps) THEN <<>> ELSE OwnErrors(L, i) \o ConcatOwnErrors(L, i + 1)

\* The proof with step t turned into a plain assumption of the same formula
\* and depth, which no check refuses.
Repaired(t) ==
  [steps EXCEPT ![t].rule = "assumption", ![t].justification = <<>>]

ErrorsIn(res, i) == SelectSeq(res.errors, LAMBDA e : e.stepId = i)

\* The errors of the other steps do not depend on step t having an error.
NoKnockOn ==
  \A t \in StepIds :
    (Len(ErrorsOf(t)) > 0 /\ steps[t].depth = 0) =>
      LET other == checkProof(Repaired(t), premises, conclusion, <<>>)
      IN \A c \in StepIds \ {t} : ErrorsIn(other, c) = ErrorsOf(c)

ErrorsInStepOrder ==
  \A a, b \in 1..Len(result.errors) :
    a < b => result.errors[a].stepId <= result.errors[b].stepId

AddedAs(i) == validateNewStep(SubSeq(steps, 1, i - 1), steps[i], premises)

C15_PremiseShortcut ==
  Returned =>
    \A i \in StepIds :
      PremiseShortcut(i) =>
        /\ Len(ErrorsOf(i)) = 0
        /\ ~AddedAs(i).threw
        /\ AddedAs(i).errors = <<>>

\* Two premise steps with a justification, one citing a step that is not
\* accessible from it and one citing an id no step has; an assumption at
\* depth 1 with a justification is refused.
C15_Witness ==
  /\ Returned
  /\ \E i \in StepIds, i2 \in StepIds :
       /\ PremiseShortcut(i)
       /\ PremiseShortcut(i2)
       /\ Len(steps[i].justification) = 1
       /\ steps[i].justification[1] < i
       /\ ~isLineAccessible(Lines, steps[i].justification[1] - 1, i - 1, 0)
       /\ Len(steps[i2].justification) = 1
       /\ steps[i2].justification[1] > Len(steps)
       /\ Len(ErrorsOf(i)) = 0
       /\ Len(ErrorsOf(i2)) = 0
       /\ AddedAs(i2).errors = <<>>

(***************************************************************************)
(* C16  Arity check comes first: a step that is neither a premise shortcut *)
(* nor a theorem citation and has fewer justifications than its rule's     *)
(* arity has the one error INSUFFICIENT_JUSTIFICATIONS, and with more than *)
(* the arity the one error TOO_MANY_JUSTIFICATIONS.                        *)
(***************************************************************************)
\* The arities the specification's rule table gives.
TableArity(rule) ==
  CASE rule = "assumption" -> 0
    [] rule \in {"and_elim_l", "and_elim_r", "or_intro_l", "or_intro_r",
                 "implies_intro", "not_intro", "not_elim", "bottom_elim", "raa"} -> 1
    [] rule \in {"and_intro", "implies_elim", "iff_intro", "iff_elim"} -> 2
    [] rule = "or_elim" -> 3

OnlyError(i, code) == ErrorsOf(i) = <<[stepId |-> i, code |-> code]>>

PrintedIn(m) == input = printFormula(built, m)

C17_RoundTrip ==
  \A m \in Modes :
    PrintedIn(m) => parsed.success /\ formulaEquals(parsed.value, built)

\* A conditional whose antecedent is a conditional, printed with parentheses
\* in ASCII and read back.
C17_Witness ==
  /\ built.kind = "implies"
  /\ built.left.kind = "implies"
  /\ PrintedIn("ascii")
  /\ At(input, 0) = "("
  /\ parsed.success
  /\ formulaEquals(parsed.value, built)

(***************************************************************************)
(* C18.  Precedence and associativity: an accepted token sequence parses   *)
(* to the tree of the ladder iff < implies < or < and < not, with chains   *)
(* of and, or and iff grouped to the left, chains of implies grouped to    *)
(* the right, and stacked negations nested.  The tree is described by      *)
(* where a token sequence splits: at its last top-level iff, else at its   *)
(* first top-level implies, else at its last top-level or, else at its     *)
(* last top-level and; else a leading not applies to the rest, a pair of   *)
(* enclosing parentheses is dropped, and a single variable or falsum is    *)
(* an atom.                                                                *)
(***************************************************************************)
\* The tokens of the input without the closing EOF.
InputTokens == LET ts == tokenize(input) IN SubSeq(ts, 1, Len(ts) - 1)

\* Open parentheses minus closed ones among the first n tokens.
RECURSIVE ParenDepth(_, _)
ParenDepth(ts, n) ==
  IF n = 0 THEN 0
  ELSE ParenDepth(ts, n - 1)
         + (IF ts[n].type = "LPAREN" THEN 1 ELSE IF ts[n].type = "RPAREN" THEN -1 ELSE 0)

TopLevel(ts, type) == {i \in 1..Len(ts) : ts[i].type = type /\ ParenDepth(ts, i) = 0}

Least(S) == CHOOSE i \in S : \A j \in S : i <= j

Greatest(S) == CHOOSE i \in S : \A j \in S : i >= j

Joined(kind, l, r) ==
  IF l = Undefined \/ r = Undefined THEN Undefined ELSE Connect(kind, l, r)

RECURSIVE LadderTree(_)
LadderTree(ts) ==
  LET Split(kind, i) ==
        Joined(kind, LadderTree(SubSeq(ts, 1, i - 1)), LadderTree(SubSeq(ts, i + 1, Len(ts))))
  IN IF TopLevel(ts, "IFF") # {} THEN Split("iff", Greatest(TopLevel(ts, "IFF")))
     ELSE IF TopLevel(ts, "IMPLIES") # {} THEN Split("implies", Least(TopLevel(ts, "IMPLIES")))
     ELSE IF TopLevel(ts, "OR") # {} THEN Split("or", Greatest(TopLevel(ts, "OR")))
     ELSE IF TopLevel(ts, "AND") # {} THEN Split("and", Greatest(TopLevel(ts, "AND")))
     ELSE IF Len(ts) = 0 THEN Undefined
     ELSE IF ts[1].type = "NOT"
     THEN LET sub == LadderTree(Tail(ts))
          IN IF sub = Undefined THEN Undefined ELSE Not(sub)
     ELSE IF ts[1].type = "LPAREN" /\ ts[Len(ts)].type = "RPAREN" /\ Len(ts) >= 2
     THEN LadderTree(SubSeq(ts, 2, Len(ts) - 1))
     ELSE IF Len(ts) = 1 /\ ts[1].type = "VAR" THEN Var(ts[1].value)
     ELSE IF Len(ts) = 1 /\ ts[1].type = "BOTTOM" THEN Bottom
     ELSE Undefined

C18_Precedence == parsed.success => parsed.value = LadderTree(InputTokens)

\* P -> P -> P has been typed and parsed to Implies(P, Implies(P, P)).
C18_Witness ==
  /\ input = <<"P", ImpliesSign, "P", ImpliesSign, "P">>
  /\ parsed.success
  /\ parsed.value = Implies(PVar, Implies(PVar, PVar))

(***************************************************************************)
(* C19.  Parse failures are values that carry the offending token's        *)
(* position: parseFormula returns a success or a failure; it fails exactly *)
(* when the tokens are not a formula followed by EOF; the position of a    *)
(* failure is the position field of the first token that cannot be         *)
(* consumed, which is the input length when that token is EOF and 0 for    *)
(* the empty input.  The first token that cannot be consumed is found by   *)
(* reading the tokens from the left, expecting an operand or an operator   *)
(* and counting the open parentheses.                                      *)
(***************************************************************************)
BinaryTokens == {"AND", "OR", "IMPLIES", "IFF"}

\* Index (from 1) of the first token that no formula followed by EOF has at
\* that place after the tokens before it; 0 when the tokens are such a text.
RECURSIVE Offending(_, _, _, _)
Offending(ts, i, expectOperand, open) ==
  LET type == ts[i].type
  IN IF expectOperand
     THEN IF type \in {"VAR", "BOTTOM"} THEN Offending(ts, i + 1, FALSE, open)
          ELSE IF type = "NOT" THEN Offending(ts, i + 1, TRUE, open)
          ELSE IF type = "LPAREN" THEN Offending(ts, i + 1, TRUE, open + 1)
          ELSE i
     ELSE IF type \in BinaryTokens THEN Offending(ts, i + 1, TRUE, open)
          ELSE IF type = "RPAREN" /\ open > 0 THEN Offending(ts, i + 1, FALSE, open - 1)
          ELSE IF type = "EOF" /\ open = 0 THEN 0
          ELSE i

C19_FailurePosition ==
  LET ts == tokenize(input)
      k == Offending(ts, 1, TRUE, 0)
  IN /\ IF parsed.success THEN DOMAIN parsed = {"success", "value"}
        ELSE DOMAIN parsed = {"success", "position"} /\ parsed.position \in 0..Len(input)
     /\ parsed.success <=> k = 0
     /\ k # 0 /\ ~parsed.success =>
          /\ parsed.position = ts[k].position
          /\ ts[k].type = "EOF" => parsed.position = Len(input)
     /\ input = <<>> => ~parsed.success /\ parsed.position = 0

\* "P->)" fails at offset 3, where the parenthesis is the third token.
C19_Witness ==
  /\ input = <<"P", "-", ">", ")">>
  /\ ~parsed.success
  /\ parsed.position = 3

(***************************************************************************)
(* C20.  Unrecognized characters are rejected: the variables of a          *)
(* successfully parsed formula have names of the form                      *)
(* [A-Za-z][A-Za-z0-9]*, and an input with a character of no lexeme (an    *)
(* '@', a '-' not followed by '>', a '_' not followed by '|_', a digit     *)
(* that starts a token) is a failure.                                      *)
(***************************************************************************)
IsIdentifier(name) ==
  /\ Len(name) >= 1
  /\ name[1] \in Letters
  /\ \A i \in 2..Len(name) : name[i] \in Letters \cup Digits

RECURSIVE VarNames(_)
VarNames(f) ==
  CASE f.kind = "var" -> {f.name}
    [] f.kind = "bottom" -> {}
    [] f.kind = "not" -> VarNames(f.operand)
    [] OTHER -> VarNames(f.left) \cup VarNames(f.right)

\* A token that is a single character of no lexeme.
StrayTokens(ts) == {i \in 1..Len(ts) : ts[i].type = "VAR" /\ ~IsIdentifier(ts[i].value)}

C20_UnrecognizedRejected ==
  /\ parsed.success => \A name \in VarNames(parsed.value) : IsIdentifier(name)
  /\ StrayTokens(tokenize(input)) # {} => ~parsed.success

(***************************************************************************)
(* C21.  Printer minimality: deleting any one matching pair of parentheses *)
(* from the printed text of a formula gives a text that does not parse, or *)
(* parses to a formula that is not structurally equal to it.               *)
(***************************************************************************)
\* Opening minus closing parentheses in text[i..j].
RECURSIVE Balance(_, _, _)
Balance(text, i, j) ==
  IF j < i THEN 0
  ELSE Balance(text, i, j - 1)
         + (IF text[j] = "(" THEN 1 ELSE IF text[j] = ")" THEN -1 ELSE 0)

\* The pairs <<i, j>> of an opening parenthesis and the one that closes it.
ParenPairs(text) ==
  {pair \in (1..Len(text)) \X (1..Len(text)) :
     /\ pair[1] < pair[2]
     /\ text[pair[1]] = "("
     /\ text[pair[2]] = ")"
     /\ Balance(text, pair[1], pair[2]) = 0
     /\ \A k \in pair[1]..(pair[2] - 1) : Balance(text, pair[1], k) > 0}

Without(text, pair) ==
  SubSeq(text, 1, pair[1] - 1) \o SubSeq(text, pair[1] + 1, pair[2] - 1)
    \o SubSeq(text, pair[2] + 1, Len(text))

\* The text parses to a formula structurally equal to f.
ReadsAs(text, f) ==
  LET Same(r) == r.success /\ formulaEquals(r.value, f)
  IN Same(parseFormula(text))

C21_PrinterMinimal ==
  \A m \in Modes :
    PrintedIn(m) => \A pair \in ParenPairs(input) : ~ReadsAs(Without(input, pair), built)

\* P and (P and P): without its parentheses the text parses, to another tree.
C21_Witness ==
  /\ built = And(PVar, And(PVar, PVar))
  /\ PrintedIn("utf8")
  /\ ParenPairs(input) = {<<5, 11>>}
  /\ parseFormula(Without(input, <<5, 11>>)).success
  /\ ~ReadsAs(Without(input, <<5, 11>>), built)

(***************************************************************************)
(* C22: for every formula f with n distinct variables, generateTruthTable  *)
(* lists the variables in ascending order without duplicates and has       *)
(* exactly 2^n rows; row i gives the j-th variable the value true iff bit  *)
(* n-1-j of i is zero, and its result is the value of f under that         *)
(* assignment.                                                             *)
(***************************************************************************)
\* The name occurs in the formula.
RECURSIVE Occurs(_, _)
Occurs(n, f) ==
  CASE f.kind = "var" -> f.name = n
    [] f.kind = "bottom" -> FALSE
    [] f.kind = "not" -> Occurs(n, f.operand)
    [] OTHER -> Occurs(n, f.left) \/ Occurs(n, f.right)

\* The classical truth value of a formula under a total assignment.
RECURSIVE Truth(_, _)
Truth(f, a) ==
  CASE f.kind = "var" -> a[f.name]
    [] f.kind = "bottom" -> FALSE
    [] f.kind = "not" -> ~Truth(f.operand, a)
    [] f.kind = "and" -> Truth(f.left, a) /\ Truth(f.right, a)
    [] f.kind = "or" -> Truth(f.left, a) \/ Truth(f.right, a)
    [] f.kind = "implies" -> Truth(f.left, a) => Truth(f.right, a)
    [] f.kind = "iff" -> Truth(f.left, a) <=> Truth(f.right, a)

\* len is 2^n, computed by halving.
RECURSIVE IsTwoToThe(_, _)
IsTwoToThe(n, len) ==
  IF n = 0 THEN len = 1
  ELSE len > 0 /\ len % 2 = 0 /\ IsTwoToThe(n - 1, len \div 2)

\* Bit k of the non-negative number i is zero, computed by halving.
RECURSIVE BitIsZero(_, _)
BitIsZero(i, k) == IF k = 0 THEN i % 2 = 0 ELSE BitIsZero(i \div 2, k - 1)

Tabulated == query[1]

TableNames == {n \in {NameOrder[k] : k \in 1..Len(NameOrder)} : Occurs(n, Tabulated)}

C22_TableComplete ==
  LET vs == answer.variables
      n == Len(vs)
  IN /\ \A j \in 1..n, k \in 1..n : j < k => NameRank(vs[j]) < NameRank(vs[k])
     /\ {vs[j] : j \in 1..n} = TableNames
     /\ IsTwoToThe(n, Len(answer.rows))
     /\ \A i \in 1..Len(answer.rows) :
          /\ DOMAIN answer.rows[i].inputs = TableNames
          /\ \A j \in 1..n :
               answer.rows[i].inputs[vs[j]] = BitIsZero(i - 1, n - 1 - (j - 1))
          /\ evaluate(Tabulated, answer.rows[i].inputs) = Ret(answer.rows[i].result)
          /\ answer.rows[i].result = Truth(Tabulated, answer.rows[i].inputs)

\* The part of C22 about formulas of at most 30 variables.
C22_SmallTableComplete == Cardinality(TableNames) <= 30 => C22_TableComplete

C22_SmallTableReached ==
  /\ Len(answer.variables) = 3
  /\ Len(answer.rows) = 8
  /\ \E i \in 1..8 : answer.rows[i].result
  /\ \E i \in 1..8 : ~answer.rows[i].result


(***************************************************************************)
(* C23: entails(P, c) is true iff findCounterexample(P, c) is null; a      *)
(* counterexample that is not null is the first assignment, in the order   *)
(* of enumeration over the sorted union of all variables, that makes every *)
(* premise true and the conclusion false.                                  *)
(***************************************************************************)
AskedPremises == query[1]

AskedConclusion == query[2]

\* The names of the argument asked about.
ArgumentNames ==
  {n \in {NameOrder[k] : k \in 1..Len(NameOrder)} :
     \/ Occurs(n, AskedConclusion)
     \/ \E k \in 1..Len(AskedPremises) : Occurs(n, AskedPremises[k])}

Enumeration == generateAllAssignments(SortNames(ArgumentNames))

\* The assignment makes every premise true and the conclusion false.
Falsifies(a) ==
  /\ \A k \in 1..Len(AskedPremises) : Truth(AskedPremises[k], a)
  /\ ~Truth(AskedConclusion, a)

C23_EntailsIffNoCounterexample ==
  LET rows == Enumeration
  IN /\ answer.entails <=> answer.counterexample = Null
     /\ answer.counterexample # Null =>
          \E i \in 1..Len(rows) :
             /\ rows[i] = answer.counterexample
             /\ Falsifies(rows[i])
             /\ \A j \in 1..(i - 1) : ~Falsifies(rows[j])
     /\ answer.counterexample = Null =>
          \A i \in 1..Len(rows) : ~Falsifies(rows[i])

\* Q therefore A is refuted by the third of four assignments, the second that
\* falsifies the conclusion.
C23_Witness ==
  /\ query = <<<<Var("Q")>>, Var("A")>>
  /\ ~answer.entails
  /\ answer.counterexample = Enumeration[3]
  /\ answer.counterexample = [n \in {"A", "Q"} |-> n = "Q"]


(***************************************************************************)
(* C24: if some variable occurring in the formula has no value in the      *)
(* assignment, evaluate raises an error and returns no boolean, wherever   *)
(* the variable occurs in the formula.                                     *)
(***************************************************************************)
Evaluated == query[1]

Given == query[2]

EvalNames == {"P", "Q", "constructor"}

C24_RaisesOnMissing ==
  (\E n \in EvalNames : Occurs(n, Evaluated) /\ n \notin DOMAIN Given) => answer.threw

\* Evaluation, operands taken from left to right, comes to a name that has
\* neither a value of its own in the assignment nor an inherited one.
RECURSIVE ReachesMissing(_, _)
ReachesMissing(f, a) ==
  CASE f.kind = "var" -> f.name \notin DOMAIN a /\ f.name \notin InheritedNames
    [] f.kind = "bottom" -> FALSE
    [] f.kind = "not" -> ReachesMissing(f.operand, a)
    [] f.kind = "iff" -> ReachesMissing(f.left, a) \/ ReachesMissing(f.right, a)
    [] OTHER ->
         \/ ReachesMissing(f.left, a)
         \/ /\ evaluate(f.left, a).value = (f.kind # "or")
            /\ ReachesMissing(f.right, a)

\* What the code does instead: it raises exactly when evaluation comes to such
\* a name.
C24_RaisesWhenReached == answer.threw <=> ReachesMissing(Evaluated, Given)

\* A name inherited from Object.prototype evaluates to a function.
C24_InheritedReached ==
  /\ Evaluated = Var("constructor")
  /\ Given = << >>
  /\ answer = Inherited("constructor")

\* A missing name behind a deciding left operand is never looked up.
C24_ShortCircuitReached ==
  /\ Evaluated = And(Bottom, Var("P"))
  /\ DOMAIN Given = {}
  /\ answer = Ret(FALSE)


(***************************************************************************)
(* C25: step i with depth d, the previous step having depth d_prev (0 for  *)
(* the first step), is marked isSubproofStart iff its rule is assumption   *)
(* and d > d_prev, or d > 0 and d = d_prev; no other step opens a scope.   *)
(***************************************************************************)
\* Depth of the step before step i (1-based), 0 before the first.
DepthBefore(i) == IF i = 1 THEN 0 ELSE steps[i - 1].depth

C25_ScopeOpening ==
  \A i \in StepIds :
    Lines[i].isSubproofStart <=>
      /\ steps[i].rule = "assumption"
      /\ \/ steps[i].depth > DepthBefore(i)
         \/ steps[i].depth > 0 /\ steps[i].depth = DepthBefore(i)

\* An opener by a rise, an opener as a sibling, an assumption below the
\* previous step and a rising step of another rule, the last two opening nothing.
C25_Witness ==
  /\ Len(steps) = 4
  /\ steps[1].rule = "assumption" /\ steps[1].depth = 2 /\ Lines[1].isSubproofStart
  /\ steps[2].rule = "assumption" /\ steps[2].depth = 2 /\ Lines[2].isSubproofStart
  /\ steps[3].rule = "assumption" /\ steps[3].depth = 1 /\ ~Lines[3].isSubproofStart
  /\ steps[4].rule # "assumption" /\ steps[4].depth = 3 /\ ~Lines[4].isSubproofStart

(***************************************************************************)
(* C26: the scope opened by step s at depth k ends on the line before the  *)
(* first later step that has depth < k or is an assumption at depth k      *)
(* whose predecessor has depth k too, and on the last line of the proof if *)
(* there is no such step; every subproof start has a subproofEnd.          *)
(***************************************************************************)
\* The later steps (1-based) that close the scope opened by step s.
Closers(s) ==
  {i \in (s + 1)..Len(steps) :
     \/ steps[i].depth < steps[s].depth
     \/ /\ steps[i].rule = "assumption"
        /\ steps[i].depth = steps[s].depth
        /\ steps[i - 1].depth = steps[s].depth}

\* The 0-based index of the line the scope of step s must end on.
ExpectedEnd(s) ==
  IF Closers(s) = {} THEN Len(steps) - 1
  ELSE (CHOOSE i \in Closers(s) : \A j \in Closers(s) : i <= j) - 2

C26_ScopeClosing ==
  \A s \in StepIds :
    Lines[s].isSubproofStart =>
      /\ Lines[s].subproofEnd # NoEnd
      /\ Lines[s].subproofEnd = ExpectedEnd(s)

\* A scope closed by a sibling, one closed by a shallower step and one that
\* is open at the end of the proof.
C26_Witness ==
  /\ Len(steps) = 4
  /\ Lines[1].isSubproofStart /\ Lines[1].subproofEnd = 0 /\ steps[2].depth = steps[1].depth
  /\ Lines[2].isSubproofStart /\ Lines[2].subproofEnd = 1 /\ steps[3].depth < steps[2].depth
  /\ Lines[4].isSubproofStart /\ Lines[4].subproofEnd = 3


(***************************************************************************)
(* C27: a step with a subproof-citing rule (implies_intro, not_intro, raa, *)
(* or_elim) is accepted only if its index is strictly greater than the     *)
(* subproofEnd of every subproof it cites; a step inside the subproof it   *)
(* cites, its last line included, is reported with an error.               *)
(***************************************************************************)
C27_ClosedBeforeDischarge ==
  Returned =>
    \A c \in StepIds :
      (usesSubproofJustification(steps[c].rule) /\ Accepted(c)) =>
        \A k \in 1..Len(steps[c].justification) :
          LET t == steps[c].justification[k]
          IN (SubproofHandle(c, k) /\ t \in StepIds) => Lines[t].subproofEnd < c - 1

\* Q from P \/ P: the or_elim is the last line of the subproof it cites twice,
\* and stays accepted when a line at depth 0 follows.
C27_DischargedInside ==
  /\ Len(steps) = 4
  /\ steps[1].formula = Or(P, P)
  /\ steps[2].rule = "assumption" /\ steps[2].formula = P /\ steps[2].depth = 1
  /\ steps[3].rule = "or_elim" /\ steps[3].formula = Q /\ steps[3].depth = 1
  /\ steps[3].justification = <<1, 2, 2>>
  /\ steps[4].depth = 0
  /\ Lines[2].subproofEnd = 2
  /\ Accepted(3)


(***************************************************************************)
(* C28: the errors checkProof reports for the steps of a proof are the     *)
(* same in the run on the proof and in the run on every extension of it:   *)
(* a step judged when it was the last line keeps its verdict when lines    *)
(* are added.                                                              *)
(***************************************************************************)
C28_StableUnderAppending ==
  [][Returned /\ Returned' => \A i \in StepIds : ErrorsOf(i)' = ErrorsOf(i)]_vars

\* The or_elim of step 3 was accepted as the last line of the subproof it
\* cites and is refused once the subproof has a fourth line.
C28_VerdictChanged ==
  /\ Len(steps) = 4
  /\ steps[3].rule = "or_elim"
  /\ steps[4].depth = 1
  /\ steps[4].rule = "or_elim"
  /\ Len(checkProof(WithoutLast, premises, conclusion, <<>>).errors) = 0
  /\ HasError(3, "SUBPROOF_CONCLUSION_MISMATCH")


(***************************************************************************)
(* C29: validateNewStep(S, s, premises) returns exactly the errors that    *)
(* checkProof(S ++ [s], premises, conclusion) reports for step s, for      *)
(* every rule including theorem.                                           *)
(***************************************************************************)
LastStep == steps[Len(steps)]

\* What validateNewStep says of the last step added to the steps before it.
NewStepVerdict == validateNewStep(WithoutLast, LastStep, premises)

C29_NewStepAgrees ==
  (Len(steps) >= 1 /\ Returned) =>
    /\ ~NewStepVerdict.threw
    /\ NewStepVerdict.errors = ErrorsOf(Len(steps))

\* The agreement for the rules other than theorem.
C29_AgreesButTheorem ==
  (Len(steps) >= 1 /\ LastStep.rule # "theorem") => C29_NewStepAgrees

\* A theorem citation with an id: refused by checkProof, passed by validateNewStep.
C29_TheoremDisagrees ==
  /\ Len(steps) >= 1
  /\ LastStep.rule = "theorem"
  /\ LastStep.theoremId = "T1"
  /\ HasError(Len(steps), "THEOREM_NOT_FOUND")
  /\ NewStepVerdict = [threw |-> FALSE, errors |-> <<>>]


(***************************************************************************)
(* C30: the scopes buildProofLineInfo computes are well nested: each has   *)
(* startIndex <= subproofEnd <= last index, every step within it has at    *)
(* least the scope's depth, two scopes are disjoint or one strictly        *)
(* contains the other and the inner one is deeper; and the stack of open   *)
(* scopes has strictly increasing depths from bottom to top during the     *)
(* walk.                                                                   *)
(***************************************************************************)
\* The steps (1-based) that open a scope.
Openers == {s \in StepIds : Lines[s].isSubproofStart}

\* The last step (1-based) of the scope opened by step s.
LastOf(s) == Lines[s].subproofEnd + 1

\* The stack of open scopes after the walk over the steps so far.
OpenScopes == WalkSteps(steps, 0, <<>>, <<>>).stack

C30_WellNested ==
  /\ \A s \in Openers :
       /\ s <= LastOf(s)
       /\ LastOf(s) <= Len(steps)
       /\ \A i \in s..LastOf(s) : steps[i].depth >= steps[s].depth
  /\ \A s \in Openers, t \in Openers :
       s < t =>
         \/ LastOf(s) < t
         \/ LastOf(t) <= LastOf(s) /\ steps[t].depth > steps[s].depth
  /\ \A k \in 1..(Len(OpenScopes) - 1) : OpenScopes[k].depth < OpenScopes[k + 1].depth

\* Three scopes open at once at depths 1, 2 and 3, after a scope that its
\* sibling closed.
C30_Witness ==
  /\ Len(steps) = 4
  /\ Openers = {1, 2, 3, 4}
  /\ LastOf(1) = 1
  /\ Len(OpenScopes) = 3
  /\ LastOf(2) = 4 /\ LastOf(3) = 4 /\ LastOf(4) = 4
  /\ steps[2].depth = 1 /\ steps[3].depth = 2 /\ steps[4].depth = 3


====
